---- MODULE Spec2Model ----
(***************************************************************************)
(* A model of the steward server (steward/server.py): the command         *)
(* dispatch of Server.handle_message over the attributes that             *)
(* Server._apply_extensions attaches, the capability listing of           *)
(* extensions/base.py, and the accept loop of Server.run with its thread  *)
(* pool workers (Server._handle_async, Server.partial) and the result     *)
(* queue drained by Server._try_respond.                                  *)
(***************************************************************************)
EXTENDS Integers, Sequences, FiniteSets, TLC

\* ----------------------------------------------------------------- bounds
\* Number of requests the clients issue in one behaviour.
MaxReq == 2
\* conf['worker_threads']: the size of the thread pool (config.py default 10).
worker_threads == 2
\* Partial notifications one capability body emits at most.
MaxPartials == 2
\* Number of calls of Client.cmd in one behaviour of the client.
MaxCmds == 2
\* Number of frames that arrive at the client in one behaviour.
MaxFrames == 3
\* Number of threads that use keyed locks at the same time.
MaxLockThreads == 3

\* Client identities (the ROUTER socket's uid frames).
Clients == {"c1", "c2"}
\* The clients are interchangeable: the first request is this one's.
FirstClient == "c1"
\* Pool threads.
Workers == 1..worker_threads
\* Python's None.
None == "None"
\* The threads that take keyed locks (pool workers running locked
\* capabilities, task threads).
LockThreads == 1..MaxLockThreads
\* The keys they ask the lock factory for.
LockKeys == {"deploy", "build"}

\* Variant of defaultdict__getitem__: a new RLock on every lookup.
defaultdict__getitem___fresh(dict, key, fresh) ==
    [dict |-> (key :> fresh) @@ dict, value |-> fresh]

\* collections.defaultdict(RLock).__getitem__: the value stored under key;
\* a key that is missing gets a new RLock first.
defaultdict__getitem__(dict, key, fresh) ==
    IF key \in DOMAIN dict
    THEN [dict |-> dict, value |-> dict[key]]
    ELSE [dict |-> (key :> fresh) @@ dict, value |-> fresh]

\* A thread that is not using a keyed lock.
NoLock == [pc |-> "idle", key |-> None, lock |-> 0]

\* ------------------------------------------------ extension modules (input)
\* A plain function or method object, before any decorator: it has no
\* __public__ attribute.  body says what running it does: "plain" returns or
\* raises as the request's behaviour says, "call" calls another server
\* attribute directly (self.private_ping()), "commands" returns the listing.
Def(body, target) ==
    [kind |-> "function", hasattr__public__ |-> FALSE, __public__ |-> FALSE,
     __invisible__ |-> FALSE, has__call__ |-> TRUE, body |-> body,
     target |-> target, methods |-> [n \in {} |-> 0],
     __format_type__ |-> None, __format_cmd__ |-> <<>>]

\* A class used as a namespace; methods maps its attribute names to functions.
Class(methods, has_call) ==
    [kind |-> "class", hasattr__public__ |-> FALSE, __public__ |-> FALSE,
     __invisible__ |-> FALSE, has__call__ |-> has_call, body |-> "plain",
     target |-> <<>>, methods |-> methods,
     __format_type__ |-> None, __format_cmd__ |-> <<>>]

\* util.public: callable from clients.
public(fxn) == [fxn EXCEPT !.hasattr__public__ = TRUE, !.__public__ = TRUE]

\* util.private: attached to the server, not callable from clients.
private(fxn) == [fxn EXCEPT !.hasattr__public__ = TRUE, !.__public__ = FALSE]

\* util.invisible: callable from, but not visible to, clients.
invisible(fxn) ==
    [fxn EXCEPT !.__invisible__ = TRUE, !.hasattr__public__ = TRUE,
                !.__public__ = TRUE]

\* util.formatter: tags an output formatter for (format, command).
formatter(fmt, cmd, fxn) ==
    [fxn EXCEPT !.__format_type__ = fmt, !.__format_cmd__ = cmd]

\* The members of the loaded extension modules: the ones of
\* tests/unit/test_extensions.py (ping .. PrivateFoo), of extensions/base.py
\* (commands, sleep, status, format_status, background, _run_in_bg) and a
\* public namespace without a call operator (Bar).
extension_mods ==
    ("unlisted_ping" :> Def("plain", <<>>)) @@
    ("ping" :> public(Def("plain", <<>>))) @@
    ("private_ping" :> private(Def("plain", <<>>))) @@
    ("private_ping_wrapper" :> public(Def("call", <<"private_ping">>))) @@
    ("Foo" :> public(Class(
        ("ping" :> public(Def("plain", <<>>))) @@
        ("private_ping" :> Def("plain", <<>>)), TRUE))) @@
    ("PrivateFoo" :> private(Class(
        ("ping" :> public(Def("plain", <<>>))), TRUE))) @@
    ("Bar" :> public(Class(
        ("ping" :> public(Def("plain", <<>>))) @@
        ("debug" :> invisible(Def("plain", <<>>))), FALSE))) @@
    ("commands" :> invisible(Def("commands", <<>>))) @@
    ("sleep" :> invisible(Def("plain", <<>>))) @@
    ("status" :> public(Def("plain", <<>>))) @@
    ("format_status" :> formatter("text", <<"status">>, Def("plain", <<>>))) @@
    ("background" :> private(Def("plain", <<>>))) @@
    ("_run_in_bg" :> Def("plain", <<>>))

\* name.startswith('_'), for the names that occur.
startswith_underscore(name) == name \in {"_run_in_bg", "_handle_async"}

\* name.lower(), for the names that occur.
lower(name) ==
    CASE name = "Foo" -> "foo"
      [] name = "PrivateFoo" -> "privatefoo"
      [] name = "Bar" -> "bar"
      [] OTHER -> name

\* Methods the Server class itself defines: reachable by getattr, untagged.
ServerMethods == {"stop", "publish", "_handle_async"}

\* A bound method of the server or of a namespace instance.
BoundMethod(fxn) == [fxn EXCEPT !.kind = "method"]

\* The instance Server._apply_extensions makes of a namespace class.
Instance(cls) == [cls EXCEPT !.kind = "instance"]

\* The module members Server._apply_extensions attaches to the server.
Attached(mods) ==
    {n \in DOMAIN mods :
        /\ ~startswith_underscore(n)
        /\ mods[n].__format_type__ = None
        /\ mods[n].hasattr__public__}

\* The module members Server._apply_extensions files under _formatters.
_formatters(mods) ==
    {n \in DOMAIN mods :
        ~startswith_underscore(n) /\ mods[n].__format_type__ # None}

\* Server._apply_extensions: the attributes reachable from the server by
\* getattr, as a map from attribute path to object.  A tagged function
\* becomes a bound method under its lower-cased name, a tagged class an
\* instance whose attributes are its methods; untagged members are skipped.
_apply_extensions(mods) ==
    LET top == {<<lower(n)>> : n \in Attached(mods)}
        own == {<<n>> : n \in ServerMethods}
        src(name) == CHOOSE n \in Attached(mods) : lower(n) = name
        inner == UNION {{<<lower(n), m>> : m \in DOMAIN mods[n].methods} :
                        n \in {k \in Attached(mods) : mods[k].kind = "class"}}
    IN  [p \in top \cup own \cup inner |->
            IF p \in own THEN BoundMethod(Def("plain", <<>>))
            ELSE IF Len(p) = 1
            THEN IF mods[src(p[1])].kind = "class"
                 THEN Instance(mods[src(p[1])])
                 ELSE BoundMethod(mods[src(p[1])])
            ELSE BoundMethod(mods[src(p[1])].methods[p[2]])]

\* The server's attributes after construction (Server.__init__).
attrs == _apply_extensions(extension_mods)

\* ------------------------------------------------------------- messages
\* A wire message is a Python dict: keys is the set of keys it has, and a
\* field whose key is absent holds a filler.  req is not on the wire: it
\* names the request a message was produced for, to state the properties.
Dict(keys, type, nonce, response, error, partial, exc, req) ==
    [keys |-> keys, type |-> type, nonce |-> nonce, response |-> response,
     error |-> error, partial |-> partial, exc |-> exc, req |-> req]

\* No value: the filler of an absent 'response' key.
NoValue == [kind |-> "none", ser |-> TRUE, items |-> {}, formatted |-> "raw"]

\* What a capability body returns: ser says whether the stream's serializer
\* accepts it (json.dumps raises TypeError on an arbitrary object).
Value(ser) == [kind |-> "value", ser |-> ser, items |-> {}, formatted |-> "raw"]

\* The exceptions that occur, with the text str(e) that is internal detail.
Exc(type, detail) == [type |-> type, detail |-> detail]

\* traceback.format_exc(): the text names the exception's type and detail.
format_exc(e) == <<"Traceback (most recent call last):", e.type, e.detail>>

\* Server.handle_message, lines 181-185: retval of a successful call.
ResponseDict(value, msg) ==
    Dict({"type", "response", "nonce"}, "response", msg.nonce, value,
         <<>>, 0, <<>>, msg.req)

\* Variant of ErrorField: a fixed description, whatever the exception.
ErrorField_Generic(e) == <<"Internal error">>

\* The value of the 'error' key of an error retval (line 192).
ErrorField(e) == format_exc(e)

\* Server.handle_message, lines 190-194: retval of a failed call.
ErrorDict(e, msg) ==
    Dict({"type", "error", "nonce"}, "error", msg.nonce, NoValue,
         ErrorField(e), 0, <<>>, msg.req)

\* The value of the 'nonce' key of a partial reply (Server.nonce, line 274).
PartialNonce(msg) == msg.nonce

\* Server.partial, lines 270-275: a partial reply.  msg_type is the number
\* of the partial among those its request emits (0 fills an absent key).
PartialDict(msg_type, msg) ==
    Dict({"type", "partial", "desc", "nonce"}, "partial", PartialNonce(msg),
         NoValue, <<>>, msg_type, <<>>, msg.req)

\* Server._try_respond, line 305: sent when a response cannot be serialized.
FallbackDict(response) ==
    Dict({"exc"}, "", 0, NoValue, <<>>, 0,
         format_exc(Exc("TypeError", "not serializable")), response.req)

\* No retval: handle_message raised instead of returning.
NoDict == Dict({}, "", 0, NoValue, <<>>, 0, <<>>, 0)

\* ------------------------------------------------------------- dispatch
\* The marker of a getattr that raised AttributeError.
Unresolved == <<"<AttributeError>">>

\* Lines 168-171 of Server.handle_message: walk the attribute list from the
\* object at path `method`; the result is the path of the attribute found.
RECURSIVE getattr_walk(_, _)
getattr_walk(method, attr_list) ==
    IF attr_list = <<>> THEN method
    ELSE LET next == Append(method, Head(attr_list))
         IN  IF next \in DOMAIN attrs
             THEN getattr_walk(next, Tail(attr_list))
             ELSE Unresolved

\* Variant of Resolve: a walk that stops at a component not tagged public.
Resolve_PublicPath(command) ==
    IF \E i \in 1..Len(command) :
          /\ SubSeq(command, 1, i) \in DOMAIN attrs
          /\ ~attrs[SubSeq(command, 1, i)].__public__
    THEN Unresolved
    ELSE getattr_walk(<<>>, command)

\* command.split('.') is modelled by giving a command as its attribute list.
Resolve(command) == getattr_walk(<<>>, command)

\* Variant of IsPublic: getattr(method, '__public__', True).
IsPublic_DefaultTrue(method) ==
    ~attrs[method].hasattr__public__ \/ attrs[method].__public__

\* Line 173: getattr(method, '__public__', False).
IsPublic(method) ==
    attrs[method].hasattr__public__ /\ attrs[method].__public__

\* inspect.ismethod(member).
ismethod(member) == attrs[member].kind = "method"

\* Variant of _visible_members: without the __invisible__ test.
RECURSIVE _visible_members_all(_)
_visible_members_all(object) ==
    LET members == {p \in DOMAIN attrs :
                        /\ Len(p) = Len(object) + 1
                        /\ SubSeq(p, 1, Len(object)) = object}
        name(p) == p[Len(p)]
        kept == {p \in members :
                    /\ ~startswith_underscore(name(p))
                    /\ attrs[p].hasattr__public__}
        nested == UNION {{<<name(p)>> \o e : e \in _visible_members_all(p)} :
                         p \in {q \in kept : ~ismethod(q)}}
        own == {<<name(p)>> : p \in {q \in kept : attrs[q].__public__}}
    IN  nested \cup own

\* extensions/base.py _visible_members: the names listed for the members of
\* the object at path `object` (<<>> is the server), as attribute lists
\* relative to it.  The alphabetical order of the list is not modelled.
RECURSIVE _visible_members(_)
_visible_members(object) ==
    LET members == {p \in DOMAIN attrs :
                        /\ Len(p) = Len(object) + 1
                        /\ SubSeq(p, 1, Len(object)) = object}
        name(p) == p[Len(p)]
        kept == {p \in members :
                    /\ ~startswith_underscore(name(p))
                    /\ attrs[p].hasattr__public__
                    /\ ~attrs[p].__invisible__}
        nested == UNION {{<<name(p)>> \o e : e \in _visible_members(p)} :
                         p \in {q \in kept : ~ismethod(q)}}
        own == {<<name(p)>> : p \in {q \in kept : attrs[q].__public__}}
    IN  nested \cup own

\* extensions/base.py commands: list(_visible_members(self, self)).
commands == [kind |-> "listing", ser |-> TRUE, items |-> _visible_members(<<>>),
             formatted |-> "raw"]

\* Server.get_formatter(command, format): the formatter member, or None.
get_formatter(command, format) ==
    LET found == {n \in _formatters(extension_mods) :
                    /\ extension_mods[n].__format_type__ = format
                    /\ extension_mods[n].__format_cmd__ = command}
    IN  IF found = {} THEN None ELSE CHOOSE n \in found : TRUE

\* Lines 176-179: the client's format (default 'raw') picks a formatter,
\* whose output (a string) replaces the value.
Format(command, format, value) ==
    IF get_formatter(command, format) = None THEN value
    ELSE [value EXCEPT !.formatted = format, !.ser = TRUE]

\* What the body of a capability does when a request runs it:
\* it returns a value, raises an Exception, or raises a BaseException that
\* is no Exception (SystemExit, as sys.exit() raises).
Behaviour(outcome, ser, detail) ==
    [outcome |-> outcome, ser |-> ser, detail |-> detail]

\* Line 174, method(*args, **kwargs): the call of the object at path
\* `method`.  invoked lists the capabilities whose body ran, in order;
\* exc is the exception that came out of the call, if any.
Call(method, b) ==
    LET o == attrs[method]
        ran == IF o.body = "call" THEN <<method, o.target>> ELSE <<method>>
    IN  IF ~o.has__call__
        THEN [outcome |-> "raise", invoked |-> <<>>, value |-> NoValue,
              exc |-> Exc("TypeError", "object is not callable")]
        ELSE IF o.body = "commands"
        THEN [outcome |-> "return", invoked |-> ran, value |-> commands,
              exc |-> Exc("", "")]
        ELSE IF b.outcome = "return"
        THEN [outcome |-> "return", invoked |-> ran, value |-> Value(b.ser),
              exc |-> Exc("", "")]
        ELSE IF b.outcome = "raise"
        THEN [outcome |-> "raise", invoked |-> ran, value |-> NoValue,
              exc |-> Exc("Exception", b.detail)]
        ELSE [outcome |-> "raise_base", invoked |-> ran, value |-> NoValue,
              exc |-> Exc("SystemExit", b.detail)]

\* Variant of Gate: hasattr(method, '__public__').
Gate_Tagged(method) == attrs[method].hasattr__public__

\* The visibility gate of line 173, for a resolved path.
Gate(method) == IsPublic(method)

\* Which exceptions the handler of line 188, "except Exception", catches.
Caught(outcome) == outcome = "raise"

\* A request: the dict a client sends.  keys is the set of keys it has
\* (msg.get('cmd') is None without 'cmd', msg['nonce'] raises KeyError
\* without 'nonce'); cmd is the command as its attribute list; req is not on
\* the wire: it numbers the requests in the order they were issued.
Msg(keys, cmd, format, nonce, req) ==
    [keys |-> keys, cmd |-> cmd, meta |-> [format |-> format],
     nonce |-> nonce, req |-> req]

\* The authorization checks that handle_message makes for the request of
\* client uid between resolving the command (lines 170-172) and calling
\* it (line 175), as pairs of capability and identity.  The only test on
\* that path is the __public__ tag of line 174: no check sees the identity.
authorize_calls(uid, msg) == {}

\* Server.handle_message(uid, msg) when the capability behaves as b.
\* raised: an exception left handle_message (a msg without 'nonce' raises
\* again in the except and finally clauses; after an exception that line 188
\* does not catch, the "return retval" of the finally clause finds retval
\* unbound); retval: the dict returned; invoked: the capabilities whose body
\* ran.
handle_message(uid, msg, b) ==
    LET command == msg.cmd
        no_command == "cmd" \notin msg.keys
        method == IF no_command THEN Unresolved ELSE Resolve(command)
        Result(raised, retval, invoked) ==
            [raised |-> raised, retval |-> retval, invoked |-> invoked]
    IN  IF "nonce" \notin msg.keys
        THEN Result(TRUE, NoDict, <<>>)
        ELSE IF no_command
        THEN Result(FALSE, ErrorDict(Exc("AttributeError",
                        "'NoneType' object has no attribute 'split'"), msg), <<>>)
        ELSE IF method = Unresolved
        THEN Result(FALSE, ErrorDict(Exc("AttributeError",
                        "object has no attribute"), msg), <<>>)
        ELSE IF ~Gate(method)
        THEN Result(FALSE, ErrorDict(Exc("AttributeError",
                        "is not public!"), msg), <<>>)
        ELSE LET c == Call(method, b)
             IN  IF c.outcome = "return"
                 THEN Result(FALSE,
                        ResponseDict(Format(command, msg.meta.format, c.value),
                                     msg), c.invoked)
                 ELSE IF Caught(c.outcome)
                 THEN Result(FALSE, ErrorDict(c.exc, msg), c.invoked)
                 ELSE Result(TRUE, NoDict, c.invoked)

\* ------------------------------------------------------------ event bus
\* Event handlers one server loads at most.
MaxHandlers == 3

\* An event name or the literal prefix of a pattern, as a list of pieces:
\* 'test_event_2' is <<"test_event", "_2">>.
EventNames == {<<"test_event">>, <<"test_event", "_2">>, <<"event", "_x">>}

\* The patterns of tests/unit/test_events.py: r'test_event' and r'event.*'.
Patterns == {<<"test_event">>, <<"event">>}

\* pattern.match(name): re.match anchors the pattern at the start of the
\* name only, so either pattern matches the names it is a prefix of.
match(pattern, name) ==
    /\ Len(pattern) <= Len(name)
    /\ SubSeq(name, 1, Len(pattern)) = pattern

\* What a handler may do when called: return None, True, False or the
\* integer 1, or raise.
HandlerReturns == {"None", "True", "False", "1", "raise"}

\* util.event_handler(name, priority): the tagged function.  id numbers the
\* handlers in the order Server._apply_extensions comes across them.
event_handler(id, name, priority, ret) ==
    [id |-> id, __sub_event__ |-> name, __priority__ |-> priority, ret |-> ret]

\* The handlers the extension modules may define, for the place id.
HandlerPool(id) ==
    {event_handler(id, name, priority, ret) :
        name \in Patterns, priority \in {10, 50}, ret \in HandlerReturns}

\* Variant of insort: a handler goes before the handlers of equal priority.
RECURSIVE insort_before(_, _)
insort_before(sorted, h) ==
    IF sorted = <<>> THEN <<h>>
    ELSE IF h.__priority__ <= Head(sorted).__priority__
    THEN <<h>> \o sorted
    ELSE <<Head(sorted)>> \o insort_before(Tail(sorted), h)

\* One step of the stable list.sort: h goes behind every handler whose
\* priority is not greater than its own.
RECURSIVE insort(_, _)
insort(sorted, h) ==
    IF sorted = <<>> THEN <<h>>
    ELSE IF h.__priority__ < Head(sorted).__priority__
    THEN <<h>> \o sorted
    ELSE <<Head(sorted)>> \o insort(Tail(sorted), h)

\* Server._apply_extensions, line 437: event_handlers.sort(key=priority).
\* list.sort is stable.
RECURSIVE sort_by_priority(_)
sort_by_priority(handlers) ==
    IF handlers = <<>> THEN <<>>
    ELSE insort(sort_by_priority(SubSeq(handlers, 1, Len(handlers) - 1)),
                handlers[Len(handlers)])

\* An entry of the record of one publish call: a handler was called, or
\* the event was sent on the PUB stream with the payload data.
CallEntry(h) == [op |-> "call", handler |-> h.id, name |-> <<>>, data |-> <<>>]
SendEntry(name, data) == [op |-> "send", handler |-> 0, name |-> name, data |-> data]

\* The handlers of the tests write to the payload dict they are given; a
\* payload is the list of the handlers that wrote to it.
HandlerWrites(h, data) == Append(data, h.id)

\* Variant of Vetoes: any true value blocks the event.
Vetoes_Truthy(ret) == ret \in {"True", "1"}

\* Line 222: retval is True.
Vetoes(ret) == ret = "True"

\* Variant of Swallows: "except Exception" with a handler raising SystemExit.
Swallows_None(ret) == ret # "raise"

\* Lines 226-227: the bare except catches whatever a handler raises.
Swallows(ret) == TRUE

\* Variant of AfterVeto: the loop goes on after a veto.
AfterVeto_Continue(handlers) == handlers

\* Lines 222-225: after a veto publish returns; no handler is left to call.
AfterVeto(handlers) == <<>>

\* Server.publish, lines 214-228, from the handlers not yet looked at.
\* Gives the record of calls and sends, whether the event was vetoed and
\* whether an exception left publish.
RECURSIVE publish_from(_, _, _, _, _)
publish_from(handlers, name, data, log, vetoed) ==
    IF handlers = <<>>
    THEN [log |-> IF vetoed THEN log ELSE Append(log, SendEntry(name, data)),
          raised |-> FALSE]
    ELSE LET h == Head(handlers)
         IN  IF ~match(h.__sub_event__, name)
             THEN publish_from(Tail(handlers), name, data, log, vetoed)
             ELSE IF h.ret = "raise" /\ ~Swallows(h.ret)
             THEN [log |-> Append(log, CallEntry(h)), raised |-> TRUE]
             ELSE IF h.ret # "raise" /\ Vetoes(h.ret)
             THEN publish_from(AfterVeto(Tail(handlers)), name,
                               HandlerWrites(h, data),
                               Append(log, CallEntry(h)), TRUE)
             ELSE publish_from(Tail(handlers), name, HandlerWrites(h, data),
                               Append(log, CallEntry(h)), vetoed)

\* Server.publish(name, data).
publish(handlers, name, data) == publish_from(handlers, name, data, <<>>, FALSE)

\* No publish call yet.
NoPublish == [log |-> <<>>, raised |-> FALSE]

\* ---------------------------------------------------------- task scheduler
\* Tasks one TaskList is given at most.
MaxTasks == 2
\* The clock stops here (time in ticks).
MaxTime == 4
\* Executions the scheduler starts at most in one behaviour.
MaxExec == 3
\* The largest num_runs of a TerminatingTaskSchedule.
MaxRuns == 2

\* A datetime, or Python's None where a datetime is expected.
At(t) == [isNone |-> FALSE, t |-> t]
NoneTime == [isNone |-> TRUE, t |-> 0]

\* The schedule functions given to Task(fxn, schedule):
\*   every        lambda dt: dt + delta            (test_task_scheduling)
\*   late         lambda dt: dt - delta            (test_late_task_runs)
\*   terminating  TerminatingTaskSchedule(num_runs, delta) of the Task
\*                docstring: dt + delta num_runs times, None ever after
\*                (_task_fxn of test_task_removal is num_runs 1, delta 0)
\*   none_once    dt + delta, but None at call num_runs + 1 alone
Schedule(kind, num_runs, delta) ==
    [kind |-> kind, num_runs |-> num_runs, delta |-> delta]

Schedules ==
    {Schedule("every", 0, 1), Schedule("late", 0, 3)}
    \cup {Schedule("terminating", 0, 0)}
    \cup {Schedule("terminating", k, d) : k \in 1..MaxRuns, d \in {0, 1}}
    \cup {Schedule("none_once", k, 1) : k \in {0, 1}}

\* The n-th call of a schedule function, made at time dt.
schedule(sched, n, dt) ==
    CASE sched.kind = "every" -> At(dt + sched.delta)
      [] sched.kind = "late" -> At(dt - sched.delta)
      [] sched.kind = "terminating" ->
            IF n <= sched.num_runs THEN At(dt + sched.delta) ELSE NoneTime
      [] sched.kind = "raising" -> At(dt + sched.delta)
      [] OTHER ->
            IF n = sched.num_runs + 1 THEN NoneTime ELSE At(dt + sched.delta)

\* Whether the n-th call of a schedule function raises: a "raising"
\* schedule gives dt + delta num_runs times and raises ever after.
schedule_raises(sched, n) == sched.kind = "raising" /\ n > sched.num_runs

\* Task.__init__: calls counts the calls of the schedule function so far.
Task(id, sched) ==
    [id |-> id, sched |-> sched, calls |-> 0, _next_exec |-> NoneTime]

\* Task._calc_next_exec, line 78: arg(datetime.now()).
_calc_next_exec(task, now) ==
    [task |-> [task EXCEPT !.calls = @ + 1],
     value |-> schedule(task.sched, task.calls + 1, now)]

\* Task.next_exec, lines 103-115: the cached value, computed first when the
\* cache holds None.
next_exec(task, now) ==
    IF task._next_exec.isNone
    THEN LET c == _calc_next_exec(task, now)
         IN  [task |-> [c.task EXCEPT !._next_exec = c.value], value |-> c.value]
    ELSE [task |-> task, value |-> task._next_exec]

\* Task.reset_next_exec, lines 117-119.
reset_next_exec(task, now) ==
    LET c == _calc_next_exec(task, now)
    IN  [c.task EXCEPT !._next_exec = c.value]

\* The key function of the sorts, lambda x: x.next_exec, applied to every
\* task of the list in turn: the tasks afterwards.
RECURSIVE sort_keys(_, _)
sort_keys(tasks, now) ==
    IF tasks = <<>> THEN <<>>
    ELSE <<next_exec(Head(tasks), now).task>> \o sort_keys(Tail(tasks), now)

\* Comparing a datetime with None raises TypeError (Python 2 datetime).
sort_raises(tasks) ==
    \E i, j \in DOMAIN tasks :
        tasks[i]._next_exec.isNone /\ ~tasks[j]._next_exec.isNone

\* One step of the stable sort by key, for keys that compare.
RECURSIVE insort_task(_, _)
insort_task(sorted, task) ==
    IF sorted = <<>> THEN <<task>>
    ELSE IF task._next_exec.t < Head(sorted)._next_exec.t
    THEN <<task>> \o sorted
    ELSE <<Head(sorted)>> \o insort_task(Tail(sorted), task)

\* tasks.sort(key=lambda x: x.next_exec), lines 162 and 191, once the keys
\* are there and compare.
RECURSIVE sort_tasks(_)
sort_tasks(tasks) ==
    IF tasks = <<>> THEN <<>>
    ELSE insort_task(sort_tasks(SubSeq(tasks, 1, Len(tasks) - 1)),
                     tasks[Len(tasks)])

\* Whether the next call of Task._calc_next_exec (line 78) raises.
calc_raises(task) == schedule_raises(task.sched, task.calls + 1)

\* How the function of a task may end: it returns, raises an Exception, or
\* raises something that is no Exception (SystemExit, KeyboardInterrupt).
BodyOutcomes == {"return", "raise", "raise_base"}

\* Variant of Task__call__: nothing is caught.
Task__call___nocatch(body) == body

\* Task.__call__, lines 121-126: an Exception raised by the function is
\* logged and the call returns (None); anything else goes on to the caller.
Task__call__(body) == IF body = "raise" THEN "return" ELSE body

\* Variant of loop_continues: the loop does not look at the flag.
loop_forever(flag) == TRUE

\* TaskList.run, line 175: while self.running.
loop_continues(flag) == flag

\* TaskList.run, lines 187-188: the first task, whose next_exec was read as
\* cur_task, is popped if that is None; rest are the tasks behind it.
pop_if_none(cur_task, rest) ==
    IF cur_task.value.isNone THEN rest ELSE <<cur_task.task>> \o rest

\* The orders a list may be left in by a sort that raised.
Orders(tasks) ==
    {[i \in DOMAIN tasks |-> tasks[p[i]]] :
        p \in {q \in [DOMAIN tasks -> DOMAIN tasks] :
                    \A i, j \in DOMAIN tasks : i # j => q[i] # q[j]}}

\* ------------------------------------------------------------------ state
VARIABLES
    running,          \* Server.running
    loop,             \* where the Server.run thread is
    socket,           \* frames that arrived on the ROUTER socket, not yet read
    taskqueue,        \* calls handed to the pool by apply_async, not yet begun
    thread,           \* each pool thread: where it is in _handle_async
    _client_cmds,     \* Server._client_cmds: uid -> thread
    _active_commands, \* Server._active_commands, by request number
    _queue,           \* Server._queue: (uid, response) pairs
    sent,             \* every (uid, message) written to the ROUTER stream
    reqs,             \* the requests issued so far, in order
    _nonce,           \* Client._nonce of each client
    ghost,            \* per request, what happened to it (history only)
    d_msg,            \* dispatch alone: the message handled last
    d_behaviour,      \* dispatch alone: how its capability behaved
    d_result,         \* dispatch alone: what handle_message did
    event_handlers,   \* Server.event_handlers, as sorted by _apply_extensions
    ev_name,          \* the name of the event published last
    ev_result,        \* what that publish call did
    now,              \* the clock, datetime.now()
    tasks,            \* TaskList.tasks
    tasklist_running, \* TaskList.running
    tasklist_pc,      \* where the TaskList thread is
    wake,             \* when its time.sleep ends
    running_tasks,    \* TaskList.running_tasks: the executions in flight
    cur_task,         \* the local cur_task of TaskList.run (0: not yet bound)
    starting,         \* threads started whose target has not yet read cur_task
    dispatched,       \* per task, the threads due-checks started for it (history)
    execs,            \* per task, the executions begun so far (history)
    popped,           \* the tasks line 189 removed (history only)
    ended,            \* executions over: how the function and the call ended
    added,            \* the schedules of the tasks given to TaskList.add so far
    _lock,            \* DefaultLockFactory._lock: the thread inside the with, or 0
    _locks,           \* DefaultLockFactory._locks: key -> the RLock made for it
    rlock_owner,      \* for every RLock made: the thread that holds it, or 0
    lock_thread,      \* where each thread that uses a keyed lock is
    uid_reads,        \* the reads of Server.uid by handlers and tasks (history)
    cmd_pc,           \* whether the client is inside Client.cmd, waiting
    cmd_nonce,        \* the local nonce of that call of Client.cmd
    partial_callback, \* whether Client.partial_callback is set
    inbox,            \* frames that arrived on the client's socket, not yet read
    arrived,          \* how many frames have arrived at the client so far
    cmd_log,          \* what Client.cmd did with each frame it read (history)
    registry,         \* config.registry.event_handlers of steward.events
    add_pc,           \* where the thread that calls TaskList.add is
    added_at,         \* per task, the time TaskList.add was called (history)
    due_check,        \* the due-check under way: the task found due, the task popped
    due_checks,       \* the due-checks that started a thread (history)
    wire,             \* messages sent on a stream, not yet read by the peer
    stream_log        \* what recv returned for each message read (history)

server_vars == <<running, loop, socket, taskqueue, thread, _client_cmds,
                 _active_commands, _queue, sent, reqs, _nonce, ghost>>
dispatch_vars == <<d_msg, d_behaviour, d_result>>
event_vars == <<event_handlers, ev_name, ev_result>>
clock_vars == <<now, wake>>
start_vars == <<cur_task, starting, dispatched>>
tasklist_vars ==
    <<tasks, tasklist_pc, running_tasks, execs, popped, added, start_vars,
      ended>>
task_vars == <<clock_vars, tasklist_vars, tasklist_running>>
lock_vars == <<_lock, _locks, rlock_owner, lock_thread>>
client_vars == <<cmd_pc, cmd_nonce, partial_callback, inbox, arrived, cmd_log>>
add_vars == <<add_pc, added_at, due_check, due_checks>>
stream_vars == <<wire, stream_log>>
vars ==
    <<server_vars, dispatch_vars, event_vars, task_vars, lock_vars, uid_reads,
      client_vars, registry, add_vars, stream_vars>>

\* What ghost records of a request: accepted, the loop handed it to the
\* pool; superseded, the loop accepted a later request of the same client
\* before handle_message had returned for this one; outcome, how its
\* capability body ended ("none": not yet; "unrun": handle_message answered
\* without running a body); retval, the type of the dict handle_message
\* returned; owner, whether line 249 found its thread still recorded for
\* the client ("none": not reached).
NoHistory == [accepted |-> FALSE, superseded |-> FALSE, outcome |-> "none",
              ser |-> TRUE, retval |-> "none", owner |-> "none"]

\* The filler of a thread that holds no request.
NoMsg == Msg({}, <<>>, "raw", 0, 0)

\* A pool thread waiting for a task.
Idle == [pc |-> "idle", uid |-> None, msg |-> NoMsg, partials |-> 0,
         put_uid |-> None, retval |-> NoDict]

\* How the body of a capability may behave in the server model.
Behaviours ==
    {Behaviour("return", TRUE, ""), Behaviour("return", FALSE, ""),
     Behaviour("raise", TRUE, "d1"), Behaviour("raise_base", TRUE, "d1")}

\* The commands the clients of the server model send.
ServerCommands == {<<"ping">>}

\* No due-check is under way: no task found due, none popped.
NoCheck == [found |-> 0, removed |-> 0]

\* No call of TaskList.add at runtime yet.
InitAdd ==
    /\ add_pc = "idle"
    /\ added_at = <<>>
    /\ due_check = NoCheck
    /\ due_checks = {}

\* Client.__init__, lines 55-77: no call of cmd yet, and no partial_callback.
InitClient ==
    /\ cmd_pc = "idle"
    /\ cmd_nonce = None
    /\ partial_callback = FALSE
    /\ inbox = <<>>
    /\ arrived = 0
    /\ cmd_log = <<>>

\* DefaultLockFactory.__init__, lines 102-105: no lock exists yet.
InitLockFactory ==
    /\ _lock = 0
    /\ _locks = [k \in {} |-> 0]
    /\ rlock_owner = <<>>
    /\ lock_thread = [t \in LockThreads |-> NoLock]

\* Two streams just constructed (BaseStream.__init__, lines 90-97): nothing
\* sent, nothing received.
InitStream ==
    /\ wire = <<>>
    /\ stream_log = <<>>

\* Server.__init__, and Server.run up to line 329.
InitServer ==
    /\ running = TRUE
    /\ loop = "accept"
    /\ socket = <<>>
    /\ taskqueue = <<>>
    /\ thread = [w \in Workers |-> Idle]
    /\ _client_cmds = [u \in {} |-> 0]
    /\ _active_commands = {}
    /\ _queue = <<>>
    /\ sent = <<>>
    /\ reqs = <<>>
    /\ _nonce = [c \in Clients |-> 0]
    /\ ghost = [r \in 1..MaxReq |-> NoHistory]
    /\ InitLockFactory
    /\ uid_reads = {}
    /\ InitClient
    /\ registry = <<>>
    /\ InitAdd
    /\ InitStream
    /\ d_msg = NoMsg
    /\ d_behaviour = Behaviour("return", TRUE, "")
    /\ d_result = [raised |-> FALSE, retval |-> NoDict, invoked |-> <<>>]

\* Server.__init__ with extension modules that define no event handler.
InitNoHandlers ==
    /\ event_handlers = <<>>
    /\ ev_name = <<>>
    /\ ev_result = NoPublish

\* TaskList.__init__, lines 144-149.
InitTaskList ==
    /\ now = 0
    /\ wake = 0
    /\ tasks = <<>>
    /\ tasklist_running = TRUE
    /\ running_tasks = {}
    /\ cur_task = 0
    /\ starting = 0
    /\ dispatched = [id \in 1..MaxTasks |-> 0]
    /\ execs = [id \in 1..MaxTasks |-> 0]
    /\ popped = {}
    /\ ended = {}
    /\ added = <<>>

\* The server once Server.run has reached its loop (line 331): the TaskList
\* thread has been started at line 322.
Init ==
    /\ InitServer
    /\ InitNoHandlers
    /\ InitTaskList
    /\ tasklist_pc = "top"

\* ---------------------------------------------------------------- clients
\* Client._create_nonce: the nonce of the next command of client c.
_create_nonce(c) == _nonce[c]

\* Client.cmd, lines 160-162: client c sends a command with a fresh nonce.
\* (The wait for the reply is left out: a client that gave up waiting sends
\* its next command while the earlier one still runs.)
ClientSend(c, cmd) ==
    /\ Len(reqs) < MaxReq
    /\ reqs = <<>> => c = FirstClient
    /\ loop # "closed"
    /\ LET msg == Msg({"cmd", "args", "kwargs", "meta", "nonce"}, cmd, "raw",
                      _create_nonce(c), Len(reqs) + 1)
       IN  /\ socket' = Append(socket, [uid |-> c, msg |-> msg])
           /\ reqs' = Append(reqs, [uid |-> c, msg |-> msg])
    /\ _nonce' = [_nonce EXCEPT ![c] = @ + 1]
    /\ UNCHANGED <<running, loop, taskqueue, thread, _client_cmds,
                   _active_commands, _queue, sent, ghost, dispatch_vars,
                   lock_vars, client_vars, registry, add_vars, uid_reads,
                   event_vars, task_vars, stream_vars>>

\* The payload of a frame whose bytes zlib.decompress or the serializer
\* rejects: it stands for no dict at all and is built by no Client.
Junk == Msg({}, <<"junk">>, "raw", 0, 0)

\* BaseStream._translate_msg, lines 167-170, on a ROUTER socket:
\* self.deserialize raises (zlib.error, ValueError, ...) on such a payload.
deserialize_raises(frame) == frame.msg = Junk

\* Some peer writes a frame with an undecodable payload to the socket.
ClientSendJunk(c) ==
    /\ loop # "closed"
    /\ \A i \in DOMAIN socket : ~deserialize_raises(socket[i])
    /\ socket' = Append(socket, [uid |-> c, msg |-> Junk])
    /\ UNCHANGED <<running, loop, taskqueue, thread, _client_cmds,
                   _active_commands, _queue, sent, reqs, _nonce, ghost,
                   dispatch_vars, lock_vars, client_vars, registry, add_vars,
                   uid_reads, event_vars, task_vars, stream_vars>>

\* ------------------------------------------------------------ accept loop
\* Whether the stream's serializer accepts a response (else TypeError).
Serializable(response) == response.response.ser

\* What line 302 or, after a TypeError, line 306 writes for one queue item.
Respond(item) ==
    IF Serializable(item.response)
    THEN [uid |-> item.uid, msg |-> item.response]
    ELSE [uid |-> item.uid, msg |-> FallbackDict(item.response)]

\* Variant of _try_respond: the queue is taken from its newest item.
_try_respond_lifo(queue) ==
    LET live == SelectSeq(queue, LAMBDA item : item.uid # None)
    IN  [i \in 1..Len(live) |-> Respond(live[Len(live) + 1 - i])]

\* Server._try_respond: take every queued pair; write the response to the
\* stream unless its uid is None.  Gives what is written, in order.
RECURSIVE _try_respond(_)
_try_respond(queue) ==
    IF queue = <<>> THEN <<>>
    ELSE IF Head(queue).uid # None
         THEN <<Respond(Head(queue))>> \o _try_respond(Tail(queue))
         ELSE _try_respond(Tail(queue))

\* Variant of apply_async_ready: pool.apply, which returns once the call is
\* done; the loop gets on when no pool thread has work.
apply_ready(threads, queue) ==
    queue = <<>> /\ \A w \in Workers : threads[w].pc = "idle"

\* pool.apply_async(self._handle_async, (uid, msg)), line 337: the call is
\* put in the pool's queue and apply_async returns, whatever the pool
\* threads are doing.
apply_async_ready(threads, queue) == TRUE

\* Lines 331-337: the loop is running and a frame is there; hand the call
\* to the pool.  (Server.stop only sets the flag this loop reads, so a
\* stop() between the test of line 331 and the recv of line 335 is the same
\* as one right after the recv.)
Recv ==
    /\ loop = "accept"
    /\ running
    /\ socket # <<>>
    /\ ~deserialize_raises(Head(socket))
    /\ apply_async_ready(thread, taskqueue)
    /\ taskqueue' = Append(taskqueue, Head(socket))
    /\ socket' = Tail(socket)
    /\ ghost' = [r \in 1..MaxReq |->
            IF r = Head(socket).msg.req
            THEN [ghost[r] EXCEPT !.accepted = TRUE]
            ELSE IF /\ ghost[r].accepted
                    /\ reqs[r].uid = Head(socket).uid
                    /\ ghost[r].outcome = "none"
            THEN [ghost[r] EXCEPT !.superseded = TRUE]
            ELSE ghost[r]]
    /\ UNCHANGED <<running, loop, thread, _client_cmds, _active_commands,
                   _queue, sent, reqs, _nonce, dispatch_vars, lock_vars,
                   client_vars, registry, add_vars, uid_reads, event_vars,
                   task_vars, stream_vars>>

\* Line 335 reads a frame whose payload does not deserialize: the exception
\* is no zmq.ZMQError (line 338) and no KeyboardInterrupt (line 342), so it
\* leaves the loop and skips lines 345-357; the finally clause calls stop()
\* and close() (lines 359-361) and the exception leaves Server.run.
RecvJunk ==
    /\ loop = "accept"
    /\ running
    /\ socket # <<>>
    /\ deserialize_raises(Head(socket))
    /\ socket' = Tail(socket)
    /\ running' = FALSE
    /\ tasklist_running' = FALSE
    /\ taskqueue' = <<>>
    /\ loop' = "closed"
    /\ UNCHANGED <<thread, _client_cmds, _active_commands, _queue, sent, reqs,
                   _nonce, ghost, dispatch_vars, lock_vars, client_vars,
                   registry, add_vars, uid_reads, event_vars, clock_vars,
                   tasklist_vars, stream_vars>>

\* Lines 338-341: recv timed out (zmq.ZMQError); the handler drains the
\* result queue.  The stream is the one conf['stream'] names or the one put
\* in Server._stream beforehand; the loop is written for a recv that takes
\* a timeout and raises zmq.ZMQError when no frame came in time (the recv of
\* streams.BaseStream takes none).
RecvTimeout ==
    /\ loop = "accept"
    /\ running
    /\ socket = <<>>
    /\ _queue # <<>>
    /\ sent' = sent \o _try_respond(_queue)
    /\ _queue' = <<>>
    /\ UNCHANGED <<running, loop, socket, taskqueue, thread, _client_cmds,
                   _active_commands, reqs, _nonce, ghost, dispatch_vars,
                   lock_vars, client_vars, registry, add_vars, uid_reads,
                   event_vars, task_vars, stream_vars>>

\* Server.stop, from the SIGQUIT handler or any caller: it stops the
\* TaskList too (line 382).
Stop ==
    /\ running
    /\ running' = FALSE
    /\ tasklist_running' = FALSE
    /\ UNCHANGED <<loop, socket, taskqueue, thread, _client_cmds,
                   _active_commands, _queue, sent, reqs, _nonce, ghost,
                   dispatch_vars, lock_vars, client_vars, registry, add_vars,
                   uid_reads, event_vars, clock_vars, tasklist_vars,
                   stream_vars>>

\* Line 331, then 345: the loop finds running false and leaves.
LoopExit ==
    /\ loop = "accept"
    /\ ~running
    /\ loop' = "drain"
    /\ UNCHANGED <<running, socket, taskqueue, thread, _client_cmds,
                   _active_commands, _queue, sent, reqs, _nonce, ghost,
                   dispatch_vars, lock_vars, client_vars, registry, add_vars,
                   uid_reads, event_vars, task_vars, stream_vars>>

\* Lines 346-355: commands are still active; poll the result queue.  (The
\* ten polls of one round are one drain here: nothing but the queue is
\* looked at between them.)
DrainWait ==
    /\ loop = "drain"
    /\ _active_commands # {}
    /\ sent' = sent \o _try_respond(_queue)
    /\ _queue' = <<>>
    /\ UNCHANGED <<running, loop, socket, taskqueue, thread, _client_cmds,
                   _active_commands, reqs, _nonce, ghost, dispatch_vars,
                   lock_vars, client_vars, registry, add_vars, uid_reads,
                   event_vars, task_vars, stream_vars>>

\* Lines 357-361: no command is active; drain once more, then close():
\* the pool is terminated (queued calls are dropped) and the queue and the
\* stream are closed.
Close ==
    /\ loop = "drain"
    /\ _active_commands = {}
    /\ sent' = sent \o _try_respond(_queue)
    /\ _queue' = <<>>
    /\ taskqueue' = <<>>
    /\ loop' = "closed"
    /\ UNCHANGED <<running, socket, thread, _client_cmds, _active_commands,
                   reqs, _nonce, ghost, dispatch_vars, lock_vars, client_vars,
                   registry, add_vars, uid_reads, event_vars, task_vars,
                   stream_vars>>

\* ----------------------------------------------------------- pool threads
\* A pool thread takes the next call from the pool's task queue.
PoolGet(w) ==
    /\ thread[w].pc = "idle"
    /\ taskqueue # <<>>
    /\ thread' = [thread EXCEPT ![w] =
            [Idle EXCEPT !.pc = "start", !.uid = Head(taskqueue).uid,
                         !.msg = Head(taskqueue).msg]]
    /\ taskqueue' = Tail(taskqueue)
    /\ UNCHANGED <<running, loop, socket, _client_cmds, _active_commands,
                   _queue, sent, reqs, _nonce, ghost, dispatch_vars, lock_vars,
                   client_vars, registry, add_vars, uid_reads, event_vars,
                   task_vars, stream_vars>>

\* Server._handle_async, lines 242-244: record the thread as the one that
\* serves the client, and the command as active.
Begin(w) ==
    /\ thread[w].pc = "start"
    /\ _client_cmds' = (thread[w].uid :> w) @@ _client_cmds
    /\ _active_commands' = _active_commands \cup {thread[w].msg.req}
    /\ thread' = [thread EXCEPT ![w].pc = "body"]
    /\ UNCHANGED <<running, loop, socket, taskqueue, _queue, sent, reqs,
                   _nonce, ghost, dispatch_vars, lock_vars, client_vars,
                   registry, add_vars, uid_reads, event_vars, task_vars,
                   stream_vars>>

\* Whether handle_message gets to run a capability body for msg.
BodyRuns(uid, msg) ==
    handle_message(uid, msg, Behaviour("return", TRUE, "")).invoked # <<>>

\* Variant of StaleCheck: the response always goes to the client.
StaleCheck_Never(w, uid) == uid

\* Lines 249-250 and 268-269: the uid to answer, None when another thread
\* has been recorded for the client since.
StaleCheck(w, uid) == IF _client_cmds[uid] # w THEN None ELSE uid

\* Server.partial, lines 267-269, called by the running capability body.
PartialCheck(w) ==
    /\ thread[w].pc = "body"
    /\ BodyRuns(thread[w].uid, thread[w].msg)
    /\ thread[w].partials < MaxPartials
    /\ thread' = [thread EXCEPT ![w].pc = "partial",
                                ![w].put_uid = StaleCheck(w, thread[w].uid)]
    /\ UNCHANGED <<running, loop, socket, taskqueue, _client_cmds,
                   _active_commands, _queue, sent, reqs, _nonce, ghost,
                   dispatch_vars, lock_vars, client_vars, registry, add_vars,
                   uid_reads, event_vars, task_vars, stream_vars>>

\* Variant of Put: a partial reply is held back, only terminal responses
\* join the queue.
Put_terminal_only(uid, response) ==
    IF loop = "closed" \/ response.type = "partial" THEN _queue
    ELSE Append(_queue, [uid |-> uid, response |-> response])

\* Queue.put: the pair joins the queue; a closed queue refuses it.
Put(uid, response) ==
    IF loop = "closed" THEN _queue
    ELSE Append(_queue, [uid |-> uid, response |-> response])

\* Server.partial, lines 270-276: queue the partial reply.
PartialPut(w) ==
    /\ thread[w].pc = "partial"
    /\ _queue' = Put(thread[w].put_uid,
                     PartialDict(thread[w].partials + 1, thread[w].msg))
    /\ thread' = [thread EXCEPT ![w].pc = "body", ![w].partials = @ + 1,
                                ![w].put_uid = None]
    /\ UNCHANGED <<running, loop, socket, taskqueue, _client_cmds,
                   _active_commands, sent, reqs, _nonce, ghost, dispatch_vars,
                   lock_vars, client_vars, registry, add_vars, uid_reads,
                   event_vars, task_vars, stream_vars>>

\* Lines 245-246: handle_message ends, the capability having behaved as b.
\* If it returned, the command is no longer active; if it raised, the
\* exception leaves _handle_async (the pool thread catches it and goes on)
\* and lines 246-251 are skipped.
Return(w, b) ==
    /\ thread[w].pc = "body"
    /\ LET r == handle_message(thread[w].uid, thread[w].msg, b)
           ran == r.invoked # <<>>
       IN  /\ thread' = [thread EXCEPT ![w] =
                    IF r.raised THEN Idle
                    ELSE [@ EXCEPT !.pc = "check", !.retval = r.retval]]
           /\ _active_commands' =
                    IF r.raised THEN _active_commands
                    ELSE _active_commands \ {thread[w].msg.req}
           /\ ghost' = [ghost EXCEPT ![thread[w].msg.req] =
                    [@ EXCEPT !.outcome = IF ran THEN b.outcome ELSE "unrun",
                              !.ser = Serializable(r.retval),
                              !.retval = IF r.raised THEN "none"
                                         ELSE r.retval.type]]
    /\ UNCHANGED <<running, loop, socket, taskqueue, _client_cmds, _queue,
                   sent, reqs, _nonce, dispatch_vars, lock_vars, client_vars,
                   registry, add_vars, uid_reads, event_vars, task_vars,
                   stream_vars>>

\* Lines 249-250: is this thread still the one recorded for the client?
Check(w) ==
    /\ thread[w].pc = "check"
    /\ thread' = [thread EXCEPT ![w].pc = "put",
                                ![w].put_uid = StaleCheck(w, thread[w].uid)]
    /\ ghost' = [ghost EXCEPT ![thread[w].msg.req].owner =
                    IF _client_cmds[thread[w].uid] = w THEN "yes" ELSE "no"]
    /\ UNCHANGED <<running, loop, socket, taskqueue, _client_cmds,
                   _active_commands, _queue, sent, reqs, _nonce, dispatch_vars,
                   lock_vars, client_vars, registry, add_vars, uid_reads,
                   event_vars, task_vars, stream_vars>>

\* Line 251: queue the response for the accept loop.
QueuePut(w) ==
    /\ thread[w].pc = "put"
    /\ _queue' = Put(thread[w].put_uid, thread[w].retval)
    /\ thread' = [thread EXCEPT ![w] = Idle]
    /\ UNCHANGED <<running, loop, socket, taskqueue, _client_cmds,
                   _active_commands, sent, reqs, _nonce, ghost, dispatch_vars,
                   lock_vars, client_vars, registry, add_vars, uid_reads,
                   event_vars, task_vars, stream_vars>>

\* -------------------------------------------------------------- TaskList
\* The threads started by due-checks so far.
TotalDispatched ==
    LET RECURSIVE Sum(_)
        Sum(n) == IF n = 0 THEN 0 ELSE dispatched[n] + Sum(n - 1)
    IN  Sum(MaxTasks)

\* TaskList.add(Task(fxn, sched)), lines 161-162: append, then sort by
\* next_exec, which computes the first next_exec of the new task.  Tasks are
\* added while the program is set up, before the thread is started
\* (Server._apply_extensions, server.py:409; tests/unit/test_tasklist.py).
\* When the sort raises TypeError the exception leaves add and the caller,
\* which has no handler for it: the set-up fails and no thread is started.
TaskAdd(sched) ==
    /\ tasklist_pc = "init"
    /\ Len(added) < MaxTasks
    /\ added' = Append(added, sched)
    /\ LET new_task == Task(Len(added) + 1, sched)
           keyed == sort_keys(Append(tasks, new_task), now)
       IN  IF calc_raises(new_task)
           THEN /\ tasks' = Append(tasks, new_task)
                /\ tasklist_pc' = "failed"
           ELSE IF sort_raises(keyed)
           THEN /\ tasks' \in Orders(keyed)
                /\ tasklist_pc' = "failed"
           ELSE /\ tasks' = sort_tasks(keyed)
                /\ tasklist_pc' = "init"
    /\ UNCHANGED <<server_vars, dispatch_vars, lock_vars, client_vars,
                   registry, add_vars, uid_reads, event_vars, clock_vars,
                   running_tasks, execs, popped, tasklist_running, start_vars,
                   ended, stream_vars>>

\* TaskList.start(): the thread begins TaskList.run.
TaskListStart ==
    /\ tasklist_pc = "init"
    /\ tasklist_pc' = "top"
    /\ UNCHANGED <<server_vars, dispatch_vars, lock_vars, client_vars,
                   registry, add_vars, uid_reads, event_vars, clock_vars,
                   tasks, running_tasks, execs, popped, added,
                   tasklist_running, start_vars, ended, stream_vars>>

\* Line 175: the loop finds running false and TaskList.run returns.
RunExit ==
    /\ tasklist_pc = "top"
    /\ ~loop_continues(tasklist_running)
    /\ tasklist_pc' = "exited"
    /\ UNCHANGED <<server_vars, dispatch_vars, lock_vars, client_vars,
                   registry, add_vars, uid_reads, event_vars, clock_vars,
                   tasks, running_tasks, execs, popped, added,
                   tasklist_running, start_vars, ended, stream_vars>>

\* Lines 176-183: no task, or the first task is not due: sleep.  Reading
\* next_exec of a task whose cache holds None calls its schedule function;
\* if that gives None again, line 180 raises TypeError and the thread ends.
RunSleep ==
    /\ tasklist_pc = "top"
    /\ loop_continues(tasklist_running)
    /\ IF tasks = <<>>
       THEN /\ tasklist_pc' = "sleep"
            /\ wake' = now + 1
            /\ tasks' = tasks
       ELSE LET first == next_exec(tasks[1], now)
            IN  /\ first.value.isNone \/ first.value.t > now
                /\ tasks' = [tasks EXCEPT ![1] = first.task]
                /\ tasklist_pc' = IF first.value.isNone THEN "crashed"
                                  ELSE "sleep"
                /\ wake' = IF first.value.isNone THEN wake ELSE first.value.t
    /\ UNCHANGED <<server_vars, dispatch_vars, lock_vars, client_vars,
                   registry, add_vars, uid_reads, event_vars, now,
                   running_tasks, execs, popped, added, tasklist_running,
                   start_vars, ended, stream_vars>>

\* time.sleep returns, at the earliest when the time asked for has passed.
\* (Time is not counted beyond MaxTime: from then on any sleep ends.)
Wake ==
    /\ tasklist_pc = "sleep"
    /\ now >= wake \/ now = MaxTime
    /\ tasklist_pc' = "top"
    /\ UNCHANGED <<server_vars, dispatch_vars, lock_vars, client_vars,
                   registry, add_vars, uid_reads, event_vars, clock_vars,
                   tasks, running_tasks, execs, popped, added,
                   tasklist_running, start_vars, ended, stream_vars>>

\* Variant of thread_start_returns: thread.join() after thread.start(); the
\* loop gets on when no execution is under way.
thread_join_returns(executing, to_begin) == executing = {} /\ to_begin = 0

\* thread.start(), line 194: it returns when the thread has been started,
\* whatever the executions started before are doing.
thread_start_returns(executing, to_begin) == TRUE

\* Lines 180-194, a due-check that finds the first task due: bind it to
\* cur_task, compute its next run (if the schedule function raises, the
\* exception leaves TaskList.run), pop it if line 187 reads None, sort, and
\* start a thread whose target is the lambda of line 192.  Thread.start
\* returns once the thread has started; the lambda reads cur_task later.
\* A sort that raises ends the TaskList thread before the thread is started.
RunDue ==
    /\ tasklist_pc = "top"
    /\ thread_start_returns(running_tasks, starting)
    /\ loop_continues(tasklist_running)
    /\ tasks # <<>>
    /\ TotalDispatched < MaxExec
    /\ LET first == next_exec(tasks[1], now)
           cur == next_exec(reset_next_exec(first.task, now), now)
           kept == pop_if_none(cur, Tail(tasks))
           keyed == sort_keys(kept, now)
           id == cur.task.id
       IN  /\ ~first.value.isNone
           /\ first.value.t <= now
           /\ cur_task' = first.task.id
           /\ IF calc_raises(first.task)
              THEN /\ tasks' = [tasks EXCEPT ![1].calls = @ + 1]
                   /\ tasklist_pc' = "crashed"
                   /\ UNCHANGED <<popped, starting, dispatched>>
              ELSE /\ popped' = IF cur.value.isNone
                                 THEN popped \cup {id} ELSE popped
                   /\ IF sort_raises(keyed)
                      THEN /\ tasks' \in Orders(keyed)
                           /\ tasklist_pc' = "crashed"
                           /\ UNCHANGED <<starting, dispatched>>
                      ELSE /\ tasks' = sort_tasks(keyed)
                           /\ tasklist_pc' = "top"
                           /\ starting' = starting + 1
                           /\ dispatched' = [dispatched EXCEPT ![id] = @ + 1]
    /\ UNCHANGED <<server_vars, dispatch_vars, lock_vars, client_vars,
                   registry, add_vars, uid_reads, event_vars, clock_vars,
                   added, running_tasks, execs, tasklist_running, ended,
                   stream_vars>>

\* The target of a started thread runs: the lambda of line 192 reads
\* cur_task as the TaskList thread has left it by now, and _run_task
\* (lines 166-169) enters that task in running_tasks and calls it.
TaskBegin ==
    /\ starting > 0
    /\ starting' = starting - 1
    /\ running_tasks' = running_tasks \cup
            {[id |-> cur_task, n |-> execs[cur_task] + 1]}
    /\ execs' = [execs EXCEPT ![cur_task] = @ + 1]
    /\ UNCHANGED <<server_vars, dispatch_vars, lock_vars, client_vars,
                   registry, add_vars, uid_reads, event_vars, clock_vars,
                   tasks, tasklist_pc, popped, added, cur_task, dispatched,
                   tasklist_running, ended, stream_vars>>

\* Variant of _run_task_removes: the entry is removed after a call that
\* returned only.
_run_task_removes_on_return(call) == call = "return"

\* TaskList._run_task, lines 168-171: the finally clause removes the entry
\* however the call of the task ended.
_run_task_removes(call) == TRUE

\* TaskList._run_task, lines 169-171: the function of the task has ended
\* as body says, Task.__call__ has dealt with it, and the thread ends.
TaskDone(e, body) ==
    /\ e \in running_tasks
    /\ running_tasks' = IF _run_task_removes(Task__call__(body))
                        THEN running_tasks \ {e} ELSE running_tasks
    /\ ended' = ended \cup {[id |-> e.id, n |-> e.n, body |-> body,
                              call |-> Task__call__(body)]}
    /\ UNCHANGED <<server_vars, dispatch_vars, lock_vars, client_vars,
                   registry, add_vars, uid_reads, event_vars, clock_vars,
                   tasks, tasklist_pc, execs, popped, added, tasklist_running,
                   start_vars, stream_vars>>

\* TaskList.stop(), lines 196-198.
TaskListStop ==
    /\ tasklist_running
    /\ tasklist_running' = FALSE
    /\ UNCHANGED <<server_vars, dispatch_vars, lock_vars, client_vars,
                   registry, add_vars, uid_reads, event_vars, clock_vars,
                   tasklist_vars, stream_vars>>

\* Time passes.
Tick ==
    /\ now < MaxTime
    /\ now' = now + 1
    /\ UNCHANGED <<server_vars, dispatch_vars, lock_vars, client_vars,
                   registry, add_vars, uid_reads, event_vars, wake,
                   tasklist_vars, tasklist_running, stream_vars>>

\* --------------------------------------------------------------- publish
\* One call of Server.publish(name, {}) on the calling thread.
Publish(name) ==
    /\ ev_name' = name
    /\ ev_result' = publish(event_handlers, name, <<>>)
    /\ UNCHANGED <<server_vars, dispatch_vars, lock_vars, client_vars,
                   registry, add_vars, uid_reads, event_handlers, task_vars,
                   stream_vars>>

\* ------------------------------------------------------- specifications
Next ==
    \/ \E c \in Clients, cmd \in ServerCommands : ClientSend(c, cmd)
    \/ Recv
    \/ RecvTimeout
    \/ Stop
    \/ LoopExit
    \/ DrainWait
    \/ Close
    \/ \E w \in Workers : PoolGet(w)
    \/ \E w \in Workers : Begin(w)
    \/ \E w \in Workers : PartialCheck(w)
    \/ \E w \in Workers : PartialPut(w)
    \/ \E w \in Workers, b \in Behaviours : Return(w, b)
    \/ \E w \in Workers : Check(w)
    \/ \E w \in Workers : QueuePut(w)

\* The server: clients, the accept loop and the pool threads.
Spec == Init /\ [][Next]_vars

\* The commands tried on handle_message alone: every attribute path of the
\* server, and paths that do not resolve.
DispatchCommands ==
    DOMAIN attrs \cup
    {<<"unlisted_ping">>, <<"nosuch">>, <<"foo", "nosuch">>,
     <<"ping", "nosuch">>, <<"">>}

\* The behaviours tried on handle_message alone.
DispatchBehaviours ==
    Behaviours \cup
    {Behaviour("raise", TRUE, "d2"), Behaviour("raise_base", TRUE, "d2")}

\* The messages tried on handle_message alone: well-formed requests, and
\* dicts that lack the 'cmd' or the 'nonce' key.
DispatchMessages ==
    {Msg(keys, cmd, format, nonce, 1) :
        keys \in {{"cmd", "args", "kwargs", "meta", "nonce"}},
        cmd \in DispatchCommands, format \in {"raw", "text"},
        nonce \in 0..MaxReq}
    \cup {Msg({"args", "kwargs", "meta", "nonce"}, <<>>, "raw", 0, 1),
          Msg({"cmd", "args", "kwargs", "meta"}, <<"ping">>, "raw", 0, 1)}

\* One call of Server.handle_message on the calling thread.
HandleMessage(msg, b) ==
    /\ d_msg' = msg
    /\ d_behaviour' = b
    /\ d_result' = handle_message("c1", msg, b)
    /\ UNCHANGED <<server_vars, lock_vars, client_vars, registry, add_vars,
                   uid_reads, event_vars, task_vars, stream_vars>>

NextDispatch ==
    \E msg \in DispatchMessages, b \in DispatchBehaviours : HandleMessage(msg, b)

\* Command dispatch alone: handle_message on any message and behaviour.
SpecDispatch == Init /\ [][NextDispatch]_vars

NextFrames ==
    \/ \E c \in Clients, cmd \in ServerCommands : ClientSend(c, cmd)
    \/ \E c \in Clients : ClientSendJunk(c)
    \/ Recv
    \/ RecvJunk
    \/ RecvTimeout
    \/ \E w \in Workers : PoolGet(w)
    \/ \E w \in Workers : Begin(w)
    \/ \E w \in Workers, b \in Behaviours : Return(w, b)
    \/ \E w \in Workers : Check(w)
    \/ \E w \in Workers : QueuePut(w)

\* The accept loop and the pool threads with peers that may send a frame
\* that does not deserialize.
SpecFrames == Init /\ [][NextFrames]_vars

\* The lists of event handlers the extension modules may define, in the
\* order Server._apply_extensions comes across them.
RECURSIVE Registrations(_)
Registrations(n) ==
    IF n = 0 THEN {<<>>}
    ELSE Registrations(n - 1) \cup
         {Append(r, h) : r \in {q \in Registrations(n - 1) : Len(q) = n - 1},
                         h \in HandlerPool(n)}

\* Server.__init__ with some event handlers in the extension modules.
InitEvents ==
    /\ InitServer
    /\ InitTaskList
    /\ tasklist_pc = "top"
    /\ event_handlers \in {sort_by_priority(r) : r \in Registrations(MaxHandlers)}
    /\ ev_name = <<>>
    /\ ev_result = NoPublish

NextEvents == \E name \in EventNames : Publish(name)

\* The event bus alone: Server.publish over any handlers.
SpecEvents == InitEvents /\ [][NextEvents]_vars

\* A TaskList of the tests: tasks are added, the thread is started by hand.
InitTasks ==
    /\ InitServer
    /\ InitNoHandlers
    /\ InitTaskList
    /\ tasklist_pc = "init"

NextTasks ==
    \/ \E sched \in Schedules : TaskAdd(sched)
    \/ TaskListStart
    \/ RunExit
    \/ RunSleep
    \/ Wake
    \/ RunDue
    \/ TaskBegin
    \/ \E e \in running_tasks : TaskDone(e, "return")
    \/ TaskListStop
    \/ Tick

\* The task scheduler alone.
SpecTasks == InitTasks /\ [][NextTasks]_vars

\* The task scheduler with a TaskList thread that is scheduled again and
\* again and a clock that goes on: the loop test of line 175 is reached,
\* time passes, and a sleep ends.
SpecTasksFair ==
    /\ SpecTasks
    /\ WF_vars(RunExit)
    /\ WF_vars(Wake)
    /\ WF_vars(Tick)

\* The schedules of the tasks whose schedule function or body may fail.
ErrorSchedules == {Schedule("every", 0, 1), Schedule("raising", 1, 1)}

NextTaskErrors ==
    \/ \E sched \in ErrorSchedules : TaskAdd(sched)
    \/ TaskListStart
    \/ RunSleep
    \/ Wake
    \/ RunDue
    \/ TaskBegin
    \/ \E e \in running_tasks, body \in BodyOutcomes : TaskDone(e, body)
    \/ Tick

\* The task scheduler with schedule functions and task functions that may
\* raise.
SpecTaskErrors == InitTasks /\ [][NextTaskErrors]_vars

\* ------------------------------------------- TaskList.add at runtime
\* TaskList.run and TaskList.add statement by statement: the two threads
\* share self.tasks and take no lock.  (A thread switch inside a running
\* list.sort, while the key function runs, is left out.)

\* The schedules of the tasks added while the scheduler runs.
RuntimeSchedules ==
    {Schedule("every", 0, 1), Schedule("every", 0, 3), Schedule("late", 0, 3),
     Schedule("terminating", 1, 0)}

\* The place in the list of the task object with this id.
IndexOf(id) == CHOOSE i \in DOMAIN tasks : tasks[i].id = id

\* Lines 175-183: the loop test, the sleep when the list is empty or its
\* first task is not due; otherwise the first task has been found due.
LoopTest ==
    /\ tasklist_pc = "top"
    /\ loop_continues(tasklist_running)
    /\ IF tasks = <<>>
       THEN /\ tasklist_pc' = "sleep"
            /\ wake' = now + 1
            /\ UNCHANGED <<tasks, due_check>>
       ELSE LET first == next_exec(tasks[1], now)
            IN  /\ tasks' = [tasks EXCEPT ![1] = first.task]
                /\ IF first.value.isNone
                   THEN /\ tasklist_pc' = "crashed"
                        /\ UNCHANGED <<wake, due_check>>
                   ELSE IF first.value.t > now
                   THEN /\ tasklist_pc' = "sleep"
                        /\ wake' = first.value.t
                        /\ UNCHANGED due_check
                   ELSE /\ TotalDispatched < MaxExec
                        /\ tasklist_pc' = "due"
                        /\ due_check' = [found |-> first.task.id, removed |-> 0]
                        /\ UNCHANGED wake
    /\ UNCHANGED <<server_vars, dispatch_vars, event_vars, lock_vars,
                   uid_reads, client_vars, registry, now, running_tasks, execs,
                   popped, added, ended, start_vars, tasklist_running, add_pc,
                   added_at, due_checks, stream_vars>>

\* Line 184: cur_task = self.tasks[0], whatever stands first by now.
LoopBind ==
    /\ tasklist_pc = "due"
    /\ cur_task' = tasks[1].id
    /\ tasklist_pc' = "bound"
    /\ UNCHANGED <<server_vars, dispatch_vars, event_vars, lock_vars,
                   uid_reads, client_vars, registry, clock_vars, tasks,
                   running_tasks, execs, popped, added, ended, starting,
                   dispatched, tasklist_running, add_vars, stream_vars>>

\* Line 185: cur_task.reset_next_exec().
LoopReset ==
    /\ tasklist_pc = "bound"
    /\ tasks' = [tasks EXCEPT ![IndexOf(cur_task)] = reset_next_exec(@, now)]
    /\ tasklist_pc' = "reset"
    /\ UNCHANGED <<server_vars, dispatch_vars, event_vars, lock_vars,
                   uid_reads, client_vars, registry, clock_vars, running_tasks,
                   execs, popped, added, ended, start_vars, tasklist_running,
                   add_vars, stream_vars>>

\* Lines 187-189: if cur_task.next_exec is None, self.tasks.pop(0) removes
\* whatever stands first by now.
LoopPop ==
    /\ tasklist_pc = "reset"
    /\ LET i == IndexOf(cur_task)
           cur == next_exec(tasks[i], now)
           read == [tasks EXCEPT ![i] = cur.task]
       IN  IF cur.value.isNone
           THEN /\ tasks' = Tail(read)
                /\ popped' = popped \cup {read[1].id}
                /\ due_check' = [due_check EXCEPT !.removed = read[1].id]
           ELSE /\ tasks' = read
                /\ UNCHANGED <<popped, due_check>>
    /\ tasklist_pc' = "sort"
    /\ UNCHANGED <<server_vars, dispatch_vars, event_vars, lock_vars,
                   uid_reads, client_vars, registry, clock_vars, running_tasks,
                   execs, added, ended, start_vars, tasklist_running, add_pc,
                   added_at, due_checks, stream_vars>>

\* Lines 191-194: sort the list and start the thread for cur_task.
LoopStart ==
    /\ tasklist_pc = "sort"
    /\ LET keyed == sort_keys(tasks, now)
       IN  IF sort_raises(keyed)
           THEN /\ tasks' \in Orders(keyed)
                /\ tasklist_pc' = "crashed"
                /\ UNCHANGED <<starting, dispatched, due_checks>>
           ELSE /\ tasks' = sort_tasks(keyed)
                /\ tasklist_pc' = "top"
                /\ starting' = starting + 1
                /\ dispatched' = [dispatched EXCEPT ![cur_task] = @ + 1]
                /\ due_checks' = due_checks \cup
                        {[found |-> due_check.found, cur |-> cur_task,
                          removed |-> due_check.removed]}
    /\ due_check' = NoCheck
    /\ UNCHANGED <<server_vars, dispatch_vars, event_vars, lock_vars,
                   uid_reads, client_vars, registry, clock_vars, running_tasks,
                   execs, popped, added, ended, cur_task, tasklist_running,
                   add_pc, added_at, stream_vars>>

\* TaskList.add, line 161: self.tasks.append(new_task), on another thread
\* than the scheduler's.
AddAppend(sched) ==
    /\ add_pc = "idle"
    /\ Len(added) < MaxTasks
    /\ tasks' = Append(tasks, Task(Len(added) + 1, sched))
    /\ added' = Append(added, sched)
    /\ added_at' = Append(added_at, now)
    /\ add_pc' = "appended"
    /\ UNCHANGED <<server_vars, dispatch_vars, event_vars, lock_vars,
                   uid_reads, client_vars, registry, clock_vars, tasklist_pc,
                   running_tasks, execs, popped, ended, start_vars,
                   tasklist_running, due_check, due_checks, stream_vars>>

\* TaskList.add, line 162: self.tasks.sort(key=lambda x: x.next_exec); a
\* sort that raises leaves add with the exception.
AddSort ==
    /\ add_pc = "appended"
    /\ LET keyed == sort_keys(tasks, now)
       IN  IF sort_raises(keyed)
           THEN tasks' \in Orders(keyed)
           ELSE tasks' = sort_tasks(keyed)
    /\ add_pc' = "idle"
    /\ UNCHANGED <<server_vars, dispatch_vars, event_vars, lock_vars,
                   uid_reads, client_vars, registry, clock_vars, tasklist_pc,
                   running_tasks, execs, popped, added, ended, start_vars,
                   tasklist_running, added_at, due_check, due_checks,
                   stream_vars>>

NextRuntimeAdd ==
    \/ LoopTest
    \/ Wake
    \/ LoopBind
    \/ LoopReset
    \/ LoopPop
    \/ LoopStart
    \/ \E sched \in RuntimeSchedules : AddAppend(sched)
    \/ AddSort
    \/ Tick

\* A running scheduler that is given its tasks by another thread.
SpecRuntimeAdd == Init /\ [][NextRuntimeAdd]_vars

\* ------------------------------------------------------------ streams.py
\* BaseStream.send and BaseStream._translate_msg over the sockets of two
\* peers.  A frame is a byte string, modelled as a sequence of one-letter
\* strings; a multipart message is a sequence of frames.
MaxStreamMsgs == 2

\* The objects handed to send: Python strings over a two-letter alphabet.
StreamObjects == {<<>>, <<"a">>, <<"b", "a">>}

\* The identities of the DEALER sockets connected to the ROUTER.
StreamUids == {<<"x">>, <<"y", "x">>}

\* The channels a PUB socket publishes on.
Channels == {<<"t">>, <<"t", "u">>}

\* The empty frame '' that delimits the routing envelope.
Delimiter == <<>>

\* The socket-role pairs, as <<type of the sender, type of the peer>>.
StreamPairs ==
    {<<"DEALER", "ROUTER">>, <<"ROUTER", "DEALER">>, <<"PUB", "SUB">>,
     <<"REQ", "REP">>, <<"REP", "REQ">>}

\* ''.join(message): the frames concatenated.
RECURSIVE join(_)
join(message) ==
    IF message = <<>> THEN <<>> ELSE Head(message) \o join(Tail(message))

\* message[n:] of Python, n counted from 0.
slice_from(message, n) ==
    IF n >= Len(message) THEN <<>> ELSE SubSeq(message, n + 1, Len(message))

\* PickleStream.serialize, line 278: pickle.dumps writes the string between
\* the opcode S and the STOP opcode ".", zlib.compress puts its header "x"
\* in front.
serialize(obj) == <<"x">> \o (<<"S">> \o obj \o <<".">>)

\* PickleStream.deserialize, line 281: zlib.decompress raises on bytes
\* without the header, pickle.loads on a pickle that is not opcode, string,
\* STOP.
deserialize(bytes) ==
    IF /\ Len(bytes) >= 3
       /\ bytes[1] = "x"
       /\ bytes[2] = "S"
       /\ bytes[Len(bytes)] = "."
    THEN [raised |-> FALSE, obj |-> SubSeq(bytes, 3, Len(bytes) - 1)]
    ELSE [raised |-> TRUE, obj |-> <<>>]

\* The arguments of send for a socket type (docstring of send, lines
\* 243-258): REQ, REP and DEALER send the object, PUB the channel and the
\* object, ROUTER the uid of the client and the object.
send_args(socket_type, uid, channel, obj) ==
    CASE socket_type = "PUB" -> <<channel, obj>>
      [] socket_type = "ROUTER" -> <<uid, obj>>
      [] OTHER -> <<obj>>

\* send with a DEALER that writes the serialized object alone, as REQ and
\* REP do.
BaseStream_send_bare(socket_type, args) ==
    CASE socket_type \in {"REQ", "REP", "DEALER"} -> <<serialize(args[1])>>
      [] socket_type = "PUB" -> <<args[1], serialize(args[2])>>
      [] socket_type = "ROUTER" -> <<args[1], Delimiter, serialize(args[2])>>

\* BaseStream.send, lines 259-269: the frames handed to the socket.
BaseStream_send(socket_type, args) ==
    CASE socket_type \in {"REQ", "REP"} -> <<serialize(args[1])>>
      [] socket_type = "PUB" -> <<args[1], serialize(args[2])>>
      [] socket_type = "ROUTER" -> <<args[1], Delimiter, serialize(args[2])>>
      [] socket_type = "DEALER" -> <<Delimiter, serialize(args[1])>>

\* What self._socket.recv_multipart() of the peer (line 236) returns for
\* the frames the sender handed to its socket (lines 260-266); uid is the
\* identity of the DEALER end.  A REQ socket puts the delimiter in front and
\* a REP socket takes the envelope off, and the other way round for the
\* reply; a ROUTER puts the identity of the sending peer in front of what it
\* reads and takes the first frame off what it writes, to route by it; PUB
\* to SUB and DEALER leave the frames as they are.
recv_multipart(pair, uid, frames) ==
    CASE pair = <<"DEALER", "ROUTER">> -> <<uid>> \o frames
      [] pair = <<"ROUTER", "DEALER">> -> Tail(frames)
      [] OTHER -> frames

\* The peer a ROUTER routes a message to: the one whose identity is the
\* first frame written (line 264).
routed_to(pair, uid, frames) ==
    IF pair[1] = "ROUTER" THEN frames[1] ELSE uid

\* BaseStream._translate_msg, lines 158-172.  The value is what the method
\* returns: <<obj>> stands for the bare object, <<name, obj>> and
\* <<uid, obj>> for the tuples.
_translate_msg(socket_type, message) ==
    CASE socket_type \in {"REQ", "REP", "DEALER"} ->
            LET d == deserialize(join(message))
            IN  [raised |-> d.raised, value |-> <<d.obj>>]
      [] socket_type = "SUB" ->
            LET name == message[1]
                d == deserialize(join(slice_from(message, 1)))
            IN  [raised |-> d.raised, value |-> <<name, d.obj>>]
      [] socket_type = "ROUTER" ->
            LET uid == message[1]
                d == deserialize(join(slice_from(message, 2)))
            IN  [raised |-> d.raised, value |-> <<uid, d.obj>>]

\* stream.send(*args) on the sender of a pair (lines 239-269), and the
\* transport of the frames to the peer's socket.
StreamSend(pair, uid, channel, obj) ==
    /\ Len(wire) + Len(stream_log) < MaxStreamMsgs
    /\ LET args == send_args(pair[1], uid, channel, obj)
           written == BaseStream_send(pair[1], args)
       IN  wire' = Append(wire,
                [pair |-> pair, uid |-> routed_to(pair, uid, written),
                 args |-> args, written |-> written,
                 frames |-> recv_multipart(pair, uid, written)])
    /\ UNCHANGED <<server_vars, dispatch_vars, event_vars, task_vars,
                   lock_vars, uid_reads, client_vars, registry, add_vars,
                   stream_log>>

\* stream.recv() on the peer (lines 208-237): recv_multipart, then
\* _translate_msg.
StreamRecv ==
    /\ wire # <<>>
    /\ LET m == Head(wire)
       IN  stream_log' = Append(stream_log,
                [pair |-> m.pair, uid |-> m.uid, args |-> m.args,
                 written |-> m.written,
                 got |-> _translate_msg(m.pair[2], m.frames)])
    /\ wire' = Tail(wire)
    /\ UNCHANGED <<server_vars, dispatch_vars, event_vars, task_vars,
                   lock_vars, uid_reads, client_vars, registry, add_vars>>

NextStream ==
    \/ \E pair \in StreamPairs, uid \in StreamUids, channel \in Channels,
          obj \in StreamObjects : StreamSend(pair, uid, channel, obj)
    \/ StreamRecv

SpecStream == Init /\ [][NextStream]_vars

\* ---------------------------------------------------- events.py registry
\* The priorities given to add_event_handler: 100 is the default.
Priorities == {10, 50, 100}

\* The dict _add_event_handler stores, lines 92-93; callback numbers the
\* handlers in the order they are registered.
HandlerDict(pattern, callback, priority) ==
    [pattern |-> pattern, callback |-> callback, priority |-> priority,
     permission |-> "default"]

\* Variant of insert_index: the loop stops at a handler of equal priority
\* too.
RECURSIVE insert_index_before(_, _, _)
insert_index_before(handlers, priority, index) ==
    IF index < Len(handlers)
    THEN IF priority <= handlers[index + 1].priority THEN index
         ELSE insert_index_before(handlers, priority, index + 1)
    ELSE index

\* The while loop of _add_event_handler, lines 86-91: the index (from 0) at
\* which the loop stops, started at index.
RECURSIVE insert_index(_, _, _)
insert_index(handlers, priority, index) ==
    IF index < Len(handlers)
    THEN IF priority < handlers[index + 1].priority THEN index
         ELSE insert_index(handlers, priority, index + 1)
    ELSE index

\* list.insert(index, x) for an index from 0 to len(list).
list_insert(list, index, x) ==
    SubSeq(list, 1, index) \o <<x>> \o SubSeq(list, index + 1, Len(list))

\* _add_event_handler(config, pattern, callback, priority), lines 64-93.
AddEventHandler(pattern, priority) ==
    /\ Len(registry) < MaxHandlers
    /\ registry' = list_insert(registry, insert_index(registry, priority, 0),
                               HandlerDict(pattern, Len(registry) + 1, priority))
    /\ UNCHANGED <<server_vars, dispatch_vars, event_vars, task_vars,
                   lock_vars, uid_reads, client_vars, add_vars, stream_vars>>

NextRegistry ==
    \E pattern \in Patterns, priority \in Priorities :
        AddEventHandler(pattern, priority)

\* The registration of event handlers through config.add_event_handler.
SpecRegistry == Init /\ [][NextRegistry]_vars

\* ------------------------------------------------------------- Client.cmd
\* The types of the messages a server sends to a client.
ResponseTypes == {"response", "error", "partial"}

\* Variant of cmd_step: the nonce of the frame is not looked at.
cmd_step_any_nonce(resp, nonce, callback) ==
    IF resp.type = "partial"
    THEN IF callback THEN "callback" ELSE "ignore"
    ELSE "return"

\* One turn of the loop of Client.cmd, lines 165-174, with the frame resp:
\* the loop goes on without it ("discard"), hands it to partial_callback
\* and goes on ("callback"), goes on because no callback is set ("ignore"),
\* or returns it ("return").
cmd_step(resp, nonce, callback) ==
    IF resp.nonce # nonce THEN "discard"
    ELSE IF resp.type = "partial"
         THEN IF callback THEN "callback" ELSE "ignore"
         ELSE "return"

\* The program sets Client.partial_callback before its first command.
SetPartialCallback ==
    /\ cmd_pc = "idle"
    /\ _nonce[FirstClient] = 0
    /\ ~partial_callback
    /\ partial_callback' = TRUE
    /\ UNCHANGED <<server_vars, dispatch_vars, event_vars, task_vars,
                   lock_vars, uid_reads, cmd_pc, cmd_nonce, inbox, arrived,
                   cmd_log, registry, add_vars, stream_vars>>

\* Client.cmd, lines 162-164: a fresh nonce, the command is sent, and the
\* call starts to wait.
CmdSend ==
    /\ cmd_pc = "idle"
    /\ _nonce[FirstClient] < MaxCmds
    /\ cmd_nonce' = _create_nonce(FirstClient)
    /\ _nonce' = [_nonce EXCEPT ![FirstClient] = @ + 1]
    /\ cmd_pc' = "waiting"
    /\ UNCHANGED <<running, loop, socket, taskqueue, thread, _client_cmds,
                   _active_commands, _queue, sent, reqs, ghost, dispatch_vars,
                   event_vars, task_vars, lock_vars, uid_reads,
                   partial_callback, inbox, arrived, cmd_log, registry,
                   add_vars, stream_vars>>

\* A frame of the server arrives at the client's socket: a partial or a
\* terminal response to any command the client has sent so far.
FrameArrives(nonce, type) ==
    /\ arrived < MaxFrames
    /\ nonce < _nonce[FirstClient]
    /\ arrived' = arrived + 1
    /\ inbox' = Append(inbox, [id |-> arrived + 1, nonce |-> nonce,
                               type |-> type])
    /\ UNCHANGED <<server_vars, dispatch_vars, event_vars, task_vars,
                   lock_vars, uid_reads, cmd_pc, cmd_nonce, partial_callback,
                   cmd_log, registry, add_vars, stream_vars>>

\* Client.cmd, lines 165-174: recv gives the next frame, and the loop
\* deals with it.
CmdRecv ==
    /\ cmd_pc = "waiting"
    /\ inbox # <<>>
    /\ LET resp == Head(inbox)
           what == cmd_step(resp, cmd_nonce, partial_callback)
       IN  /\ inbox' = Tail(inbox)
           /\ cmd_pc' = IF what = "return" THEN "idle" ELSE "waiting"
           /\ cmd_nonce' = IF what = "return" THEN None ELSE cmd_nonce
           /\ cmd_log' = Append(cmd_log, [call |-> cmd_nonce, frame |-> resp,
                                          what |-> what, then |-> cmd_pc'])
    /\ UNCHANGED <<server_vars, dispatch_vars, event_vars, task_vars,
                   lock_vars, uid_reads, partial_callback, arrived, registry,
                   add_vars, stream_vars>>

\* Client.cmd, line 166: the user interrupts the blocking recv
\* (KeyboardInterrupt), and the call ends without a response.
CmdInterrupt ==
    /\ cmd_pc = "waiting"
    /\ cmd_pc' = "idle"
    /\ cmd_nonce' = None
    /\ UNCHANGED <<server_vars, dispatch_vars, event_vars, task_vars,
                   lock_vars, uid_reads, partial_callback, inbox, arrived,
                   cmd_log, registry, add_vars, stream_vars>>

NextClient ==
    \/ SetPartialCallback
    \/ CmdSend
    \/ \E nonce \in 0..(MaxCmds - 1), type \in ResponseTypes :
            FrameArrives(nonce, type)
    \/ CmdRecv
    \/ CmdInterrupt

\* One client that calls Client.cmd again and again, and a server that
\* answers its commands in any order, late or never.
SpecClient == Init /\ [][NextClient]_vars

\* ------------------------------------------------------------- Server.uid
\* The _uid attribute of pool thread w, read with getattr(cur, '_uid', None)
\* (Server.uid, lines 92-93): handle_message sets it to the client's uid on
\* entry (line 164) and deletes it in its finally clause (line 192).
_uid(w) == IF thread[w].pc = "body" THEN thread[w].uid ELSE None

\* The same read on a thread TaskList.run started (tasks.py:192): nothing
\* gives that thread a _uid attribute.
_uid_of_task_thread == None

\* What the event handlers that publish called record when each of them
\* reads Server.uid on the publishing thread.
HandlerReads(result, caller, value) ==
    IF result.log = <<>> THEN {}
    ELSE {[from |-> "handler", caller |-> caller, value |-> value]}

\* The body of the capability that pool thread w is running calls
\* self.publish(name): the handlers run on thread w, inside handle_message.
CapabilityPublish(w, name) ==
    /\ thread[w].pc = "body"
    /\ ev_name' = name
    /\ ev_result' = publish(event_handlers, name, <<>>)
    /\ uid_reads' = uid_reads \cup HandlerReads(ev_result', "capability", _uid(w))
    /\ UNCHANGED <<server_vars, dispatch_vars, lock_vars, client_vars,
                   registry, add_vars, event_handlers, task_vars, stream_vars>>

\* The function of a running task calls server.publish(name): the handlers
\* run on the task's thread.
TaskPublish(e, name) ==
    /\ e \in running_tasks
    /\ ev_name' = name
    /\ ev_result' = publish(event_handlers, name, <<>>)
    /\ uid_reads' = uid_reads \cup HandlerReads(ev_result', "task",
                                                _uid_of_task_thread)
    /\ UNCHANGED <<server_vars, dispatch_vars, lock_vars, client_vars,
                   registry, add_vars, event_handlers, task_vars, stream_vars>>

\* The function of a running task reads server.uid.
TaskReadsUid(e) ==
    /\ e \in running_tasks
    /\ uid_reads' = uid_reads \cup {[from |-> "task", caller |-> "task",
                                      value |-> _uid_of_task_thread]}
    /\ UNCHANGED <<server_vars, dispatch_vars, lock_vars, client_vars,
                   registry, add_vars, event_vars, task_vars, stream_vars>>

\* The lists of event handlers of the servers whose handlers read Server.uid:
\* no handler, or one that returns None or raises.
UidHandlers ==
    {r \in Registrations(1) :
        \A i \in DOMAIN r : /\ r[i].ret \in {"None", "raise"}
                             /\ r[i].__priority__ = 10}

\* A server with at most one event handler and one task that is always due.
InitUid ==
    /\ InitServer
    /\ now = 0
    /\ wake = 0
    /\ tasklist_running = TRUE
    /\ tasklist_pc = "top"
    /\ running_tasks = {}
    /\ cur_task = 0
    /\ starting = 0
    /\ dispatched = [id \in 1..MaxTasks |-> 0]
    /\ execs = [id \in 1..MaxTasks |-> 0]
    /\ popped = {}
    /\ ended = {}
    /\ added = <<Schedule("late", 0, 3)>>
    /\ tasks = sort_tasks(sort_keys(<<Task(1, added[1])>>, now))
    /\ event_handlers \in UidHandlers
    /\ ev_name = <<>>
    /\ ev_result = NoPublish

NextUid ==
    \/ \E cmd \in ServerCommands : ClientSend(FirstClient, cmd)
    \/ Recv
    \/ \E w \in Workers : PoolGet(w)
    \/ \E w \in Workers : Begin(w)
    \/ \E w \in Workers : Return(w, Behaviour("return", TRUE, ""))
    \/ \E w \in Workers : CapabilityPublish(w, <<"test_event">>)
    \/ RunDue
    \/ TaskBegin
    \/ \E e \in running_tasks : TaskDone(e, "return")
    \/ \E e \in running_tasks : TaskPublish(e, <<"test_event">>)
    \/ \E e \in running_tasks : TaskReadsUid(e)

\* Capabilities and tasks that publish events, and handlers and tasks that
\* read Server.uid.
SpecUid == InitUid /\ [][NextUid]_vars

\* ------------------------------------------------------------ keyed locks
\* DefaultLockFactory.__call__, line 108: thread t asks for the lock of key
\* and enters "with self._lock"; it waits while another thread is inside.
LockFactoryEnter(t, key) ==
    /\ lock_thread[t].pc = "idle"
    /\ _lock = 0
    /\ _lock' = t
    /\ lock_thread' = [lock_thread EXCEPT ![t] = [@ EXCEPT !.pc = "factory",
                                                           !.key = key]]
    /\ UNCHANGED <<server_vars, dispatch_vars, uid_reads, client_vars,
                   registry, add_vars, event_vars, task_vars, _locks,
                   rlock_owner, stream_vars>>

\* DefaultLockFactory.__call__, line 109: self._locks[key] inside the with,
\* then the with block ends and the lock is returned.
LockFactoryReturn(t) ==
    /\ lock_thread[t].pc = "factory"
    /\ LET r == defaultdict__getitem__(_locks, lock_thread[t].key,
                                       Len(rlock_owner) + 1)
       IN  /\ _locks' = r.dict
           /\ rlock_owner' = IF r.value > Len(rlock_owner)
                             THEN Append(rlock_owner, 0) ELSE rlock_owner
           /\ lock_thread' = [lock_thread EXCEPT ![t] =
                                 [@ EXCEPT !.pc = "got", !.lock = r.value]]
    /\ _lock' = 0
    /\ UNCHANGED <<server_vars, dispatch_vars, uid_reads, client_vars,
                   registry, add_vars, event_vars, task_vars, stream_vars>>

\* lock, line 25: "with request.registry.lock_factory(key)" acquires the
\* RLock the factory returned; thread t waits while another thread holds it.
LockAcquire(t) ==
    /\ lock_thread[t].pc = "got"
    /\ rlock_owner[lock_thread[t].lock] = 0
    /\ rlock_owner' = [rlock_owner EXCEPT ![lock_thread[t].lock] = t]
    /\ lock_thread' = [lock_thread EXCEPT ![t].pc = "critical"]
    /\ UNCHANGED <<server_vars, dispatch_vars, uid_reads, client_vars,
                   registry, add_vars, event_vars, task_vars, _lock, _locks,
                   stream_vars>>

\* lock, lines 25-29: the locked function has run and the with block ends.
LockRelease(t) ==
    /\ lock_thread[t].pc = "critical"
    /\ rlock_owner' = [rlock_owner EXCEPT ![lock_thread[t].lock] = 0]
    /\ lock_thread' = [lock_thread EXCEPT ![t] = NoLock]
    /\ UNCHANGED <<server_vars, dispatch_vars, uid_reads, client_vars,
                   registry, add_vars, event_vars, task_vars, _lock, _locks,
                   stream_vars>>

NextLocks ==
    \/ \E t \in LockThreads, key \in LockKeys : LockFactoryEnter(t, key)
    \/ \E t \in LockThreads : LockFactoryReturn(t)
    \/ \E t \in LockThreads : LockAcquire(t)
    \/ \E t \in LockThreads : LockRelease(t)

\* Threads that synchronize on the keyed locks of the default factory.
SpecLocks == Init /\ [][NextLocks]_vars

\* A server whose extension modules define two tasks, once Server.run has
\* reached its loop: the tasks were added by Server._apply_extensions and
\* the TaskList thread was started at line 322.
InitShutdown ==
    /\ InitServer
    /\ InitNoHandlers
    /\ now = 0
    /\ wake = 0
    /\ tasklist_running = TRUE
    /\ tasklist_pc = "top"
    /\ running_tasks = {}
    /\ cur_task = 0
    /\ starting = 0
    /\ dispatched = [id \in 1..MaxTasks |-> 0]
    /\ execs = [id \in 1..MaxTasks |-> 0]
    /\ popped = {}
    /\ ended = {}
    /\ added \in {<<s1, s2>> : s1, s2 \in {Schedule("every", 0, 1),
                                           Schedule("late", 0, 3),
                                           Schedule("terminating", 1, 1)}}
    /\ tasks = sort_tasks(sort_keys(<<Task(1, added[1]), Task(2, added[2])>>, 0))

NextShutdown ==
    \/ Stop
    \/ LoopExit
    \/ Close
    \/ RunExit
    \/ RunSleep
    \/ Wake
    \/ RunDue
    \/ TaskBegin
    \/ \E e \in running_tasks : TaskDone(e, "return")
    \/ Tick

\* The shutdown of a server that has tasks and no request in flight.
SpecShutdown == InitShutdown /\ [][NextShutdown]_vars

\* ------------------------------------------------------------ properties
\* A terminal response: type 'response' or 'error'.
Terminal(m) == "type" \in m.keys /\ m.type \in {"response", "error"}

\* A partial response.
IsPartial(m) == "type" \in m.keys /\ m.type = "partial"

\* The places in sent of the terminal responses that client uid got for nonce.
TerminalsFor(uid, nonce) ==
    {i \in DOMAIN sent :
        /\ sent[i].uid = uid
        /\ Terminal(sent[i].msg)
        /\ "nonce" \in sent[i].msg.keys
        /\ sent[i].msg.nonce = nonce}

\* Nothing is in flight: every request issued was read, run and answered or
\* dropped, and the loop is still accepting.
Quiescent ==
    /\ loop = "accept"
    /\ running
    /\ socket = <<>>
    /\ taskqueue = <<>>
    /\ _queue = <<>>
    /\ \A w \in Workers : thread[w].pc = "idle"

\* C1 (as claimed): staleness suppression.  If the loop accepted a later
\* request of client C before handle_message had returned for an earlier
\* request r1 of C, no terminal response for r1 is ever sent to C.
C1_StalenessSuppression ==
    \A i \in DOMAIN sent :
        Terminal(sent[i].msg) => ~ghost[sent[i].msg.req].superseded

C3_TerminalLast ==
    \A i, j \in DOMAIN sent :
        (/\ i < j
         /\ sent[i].uid = sent[j].uid
         /\ "nonce" \in sent[i].msg.keys
         /\ "nonce" \in sent[j].msg.keys
         /\ sent[i].msg.nonce = sent[j].msg.nonce)
        => /\ ~Terminal(sent[i].msg)
           /\ IsPartial(sent[j].msg) => sent[i].msg.partial < sent[j].msg.partial

\* C3 witness: two partials of one request were sent, then its terminal
\* response.
C3_Witness ==
    \E i, j, k \in DOMAIN sent :
        /\ i < j /\ j < k
        /\ IsPartial(sent[i].msg) /\ IsPartial(sent[j].msg)
        /\ Terminal(sent[k].msg)
        /\ sent[i].msg.req = sent[k].msg.req
        /\ sent[j].msg.req = sent[k].msg.req

\* C4 (as claimed): every message sent to a client in answer to a request
\* has a 'nonce' key whose value is the nonce of the request it answers.
C4_NonceRoundTrip ==
    \A i \in DOMAIN sent :
        /\ "nonce" \in sent[i].msg.keys
        /\ sent[i].msg.nonce = reqs[sent[i].msg.req].msg.nonce

\* C5 (as claimed): whenever a capability body raised while running for a
\* request, handle_message returned a dict of type 'error' for that request.
C5_ExceptionBecomesError ==
    \A r \in 1..Len(reqs) :
        ghost[r].outcome \in {"raise", "raise_base"} => ghost[r].retval = "error"

\* The commands that name a member of the extension modules.
ExtensionCommands == {c \in DOMAIN attrs : c[1] \notin ServerMethods}

\* The member of the extension modules that the last component of an
\* extension command names, with the tags its decorators gave it.
Member(command) ==
    LET n == CHOOSE k \in DOMAIN extension_mods : lower(k) = command[1]
    IN  IF Len(command) = 1 THEN extension_mods[n]
        ELSE extension_mods[n].methods[command[2]]

\* handle_message has handled a request that has its 'nonce' key.
Handled == "nonce" \in d_msg.keys

C7_PrivateOnlyFromServer ==
    /\ (/\ Handled
        /\ "cmd" \in d_msg.keys
        /\ d_msg.cmd \in ExtensionCommands
        /\ Member(d_msg.cmd).hasattr__public__
        /\ ~Member(d_msg.cmd).__public__)
       => /\ d_result.invoked = <<>>
          /\ ~d_result.raised
          /\ d_result.retval.type = "error"
    /\ (Handled /\ "cmd" \in d_msg.keys /\ d_msg.cmd = <<"private_ping_wrapper">>)
       => d_result.invoked = << <<"private_ping_wrapper">>, <<"private_ping">> >>

\* C7 witness: the wrapper was requested and private_ping ran and returned.
C7_Witness ==
    /\ Handled
    /\ d_msg.cmd = <<"private_ping_wrapper">>
    /\ <<"private_ping">> \in {d_result.invoked[i] : i \in DOMAIN d_result.invoked}
    /\ d_result.retval.type = "response"

\* C8: a request whose command is absent, does not resolve, or resolves to
\* an object not tagged public (an untagged extension function is never
\* attached, so its name does not resolve) makes handle_message return a
\* dict of type 'error' with the request's nonce, without running a body
\* and without raising.
C8_UnresolvedIsError ==
    (/\ Handled
     /\ \/ "cmd" \notin d_msg.keys
        \/ d_msg.cmd \notin DOMAIN attrs
        \/ ~(attrs[d_msg.cmd].hasattr__public__ /\ attrs[d_msg.cmd].__public__))
    => /\ ~d_result.raised
       /\ d_result.retval.type = "error"
       /\ "nonce" \in d_result.retval.keys
       /\ d_result.retval.nonce = d_msg.nonce
       /\ d_result.invoked = <<>>

\* C8 witness: the untagged extension function unlisted_ping was requested,
\* with a nonce other than the filler, and answered with an error.
C8_Witness ==
    /\ Handled
    /\ "cmd" \in d_msg.keys
    /\ d_msg.cmd = <<"unlisted_ping">>
    /\ d_msg.nonce = 1
    /\ d_result.retval.type = "error"
    /\ d_result.retval.nonce = 1

\* The names in the listing that handle_message returned.
Listed == d_result.retval.response.items

\* handle_message answered the 'commands' request with the listing.
ListingReturned ==
    /\ Handled
    /\ "cmd" \in d_msg.keys
    /\ d_msg.cmd = <<"commands">>
    /\ d_result.retval.type = "response"

\* A request for command c runs a capability body.
Invocable(c) ==
    handle_message("c1", Msg({"cmd", "args", "kwargs", "meta", "nonce"},
                             c, "raw", 0, 1),
                   Behaviour("return", TRUE, "")).invoked # <<>>

C10_LastComponentDecides ==
    (Handled /\ "cmd" \in d_msg.keys) =>
        /\ (d_msg.cmd \in ExtensionCommands /\ Member(d_msg.cmd).has__call__)
           => ((d_result.invoked # <<>>)
               <=> (Member(d_msg.cmd).hasattr__public__
                    /\ Member(d_msg.cmd).__public__))
        /\ d_msg.cmd = <<"privatefoo", "ping">>
           => d_result.invoked = << <<"privatefoo", "ping">> >>
        /\ d_msg.cmd = <<"privatefoo">>
           => d_result.invoked = <<>> /\ d_result.retval.type = "error"
        /\ d_msg.cmd = <<"foo">> => d_result.invoked = << <<"foo">> >>

\* C10 witness: privatefoo.ping was requested, ran and was answered.
C10_Witness ==
    /\ Handled
    /\ d_msg.cmd = <<"privatefoo", "ping">>
    /\ d_result.invoked = << <<"privatefoo", "ping">> >>
    /\ d_result.retval.type = "response"

\* C11 (as claimed): no capability body runs for a request of a client
\* unless handle_message asked the authorization check about that
\* capability and that client beforehand.
C11_AuthorizedBeforeRun ==
    (Handled /\ "cmd" \in d_msg.keys) =>
        \A i \in DOMAIN d_result.invoked :
            <<d_result.invoked[i], "c1">> \in authorize_calls("c1", d_msg)

\* The handler calls and the sends of the last publish, in order.
Calls == SelectSeq(ev_result.log, LAMBDA e : e.op = "call")
Sends == SelectSeq(ev_result.log, LAMBDA e : e.op = "send")

\* publish has been called.
Published == ev_name # <<>>

\* The handler registered in place id.
HandlerOf(id) ==
    CHOOSE h \in {event_handlers[i] : i \in DOMAIN event_handlers} : h.id = id

\* The handlers whose pattern matches the published name, by place.
Matching ==
    {event_handlers[i].id : i \in {k \in DOMAIN event_handlers :
        match(event_handlers[k].__sub_event__, ev_name)}}

\* C12: one publish calls handlers that match the name only, each at most
\* once, in non-decreasing priority (the lower number first), and handlers
\* of equal priority in the order they were registered.
C12_PriorityOrder ==
    Published =>
        /\ \A i \in DOMAIN Calls : Calls[i].handler \in Matching
        /\ \A i, j \in DOMAIN Calls :
              i < j =>
                LET a == HandlerOf(Calls[i].handler)
                    b == HandlerOf(Calls[j].handler)
                IN  \/ a.__priority__ < b.__priority__
                    \/ a.__priority__ = b.__priority__ /\ a.id < b.id

\* C12 witness: handlers registered with priorities 50, 10, 50 all matched
\* and were called second, first and third.
C12_Witness ==
    /\ Published
    /\ Len(event_handlers) = 3
    /\ HandlerOf(1).__priority__ = 50
    /\ HandlerOf(2).__priority__ = 10
    /\ HandlerOf(3).__priority__ = 50
    /\ Len(Calls) = 3
    /\ Calls[1].handler = 2 /\ Calls[2].handler = 1 /\ Calls[3].handler = 3

\* C13: veto.  Once a handler has returned the boolean True, the publish
\* calls no further handler and does not send the event on the PUB stream.
C13_VetoShortCircuit ==
    Published =>
        \A i \in DOMAIN ev_result.log :
            (/\ ev_result.log[i].op = "call"
             /\ HandlerOf(ev_result.log[i].handler).ret = "True")
            => /\ i = Len(ev_result.log)
               /\ Sends = <<>>

\* C13 witness: three handlers matched; the second to be called returned
\* True, the third was not called and nothing was sent.
C13_Witness ==
    /\ Published
    /\ Cardinality(Matching) = 3
    /\ Len(ev_result.log) = 2
    /\ Len(Calls) = 2
    /\ HandlerOf(Calls[2].handler).ret = "True"

\* The place of a handler in the sorted list, and the handlers called.
Place(id) == CHOOSE i \in DOMAIN event_handlers : event_handlers[i].id = id
CalledIds == {Calls[i].handler : i \in DOMAIN Calls}

\* A matching handler that comes before handler id returns True.
VetoBefore(id) ==
    \E v \in Matching : HandlerOf(v).ret = "True" /\ Place(v) < Place(id)

\* A matching handler returns True.
SomeVeto == \E v \in Matching : HandlerOf(v).ret = "True"

\* C14: when a handler called by publish raises, the exception does not
\* leave publish, every matching handler with no vetoing handler before it
\* is still called, in the order of the list, and unless a handler vetoes
\* the event is sent.
C14_RaiseIsContained ==
    (Published /\ \E id \in CalledIds : HandlerOf(id).ret = "raise") =>
        /\ ~ev_result.raised
        /\ \A id \in Matching : ~VetoBefore(id) => id \in CalledIds
        /\ \A i, j \in DOMAIN Calls :
              i < j => Place(Calls[i].handler) < Place(Calls[j].handler)
        /\ ~SomeVeto => Len(Sends) = 1

\* C14 witness: the first handler called raised, two more were called
\* after it and the event was sent.
C14_Witness ==
    /\ Published
    /\ Len(Calls) = 3
    /\ HandlerOf(Calls[1].handler).ret = "raise"
    /\ Len(Sends) = 1

\* C15: if no matching handler returns the boolean True (None, False, the
\* integer 1 and raising do not veto), publish sends exactly one message on
\* the PUB stream, after it has called every matching handler, with the
\* published name as topic and the payload as the handlers left it.
C15_DefaultPropagation ==
    (Published /\ ~SomeVeto) =>
        /\ Len(Sends) = 1
        /\ ev_result.log[Len(ev_result.log)].op = "send"
        /\ CalledIds = Matching
        /\ Len(Calls) = Cardinality(Matching)
        /\ Sends[1].name = ev_name
        /\ Sends[1].data = [i \in 1..Len(Calls) |-> Calls[i].handler]

\* C15 witness: three matching handlers returned 1, returned False and
\* raised, and the event was sent with what the three wrote.
C15_Witness ==
    /\ Published
    /\ Len(Calls) = 3
    /\ {HandlerOf(id).ret : id \in CalledIds} = {"1", "False", "raise"}
    /\ Len(Sends) = 1
    /\ Len(Sends[1].data) = 3

\* Task id is in the list of the TaskList.
InList(id) == \E i \in DOMAIN tasks : tasks[i].id = id

\* C16 (as claimed): a task whose schedule function gives a time k times
\* (k >= 1) and None ever after is never executed more than k times, leaves
\* the list in the due-check that starts the thread of its k-th execution
\* and not before, and has been executed exactly k times once it is gone
\* and every thread started has begun its task.
C16_TaskLifecycle ==
    \A id \in DOMAIN added :
        (added[id].kind = "terminating" /\ added[id].num_runs >= 1) =>
            /\ execs[id] <= added[id].num_runs
            /\ InList(id) <=> dispatched[id] < added[id].num_runs
            /\ id \in popped <=> ~InList(id)
            /\ (~InList(id) /\ starting = 0) => execs[id] = added[id].num_runs

\* C17 (as claimed): a due-check that finds a task whose next_exec is in
\* the past (the schedule of test_late_task_runs: three ticks before now)
\* dispatches that task exactly once: once the threads started have begun,
\* the task has been executed once for every due-check that found it due.
C17_LateSingleFire ==
    \A id \in DOMAIN added :
        (added[id].kind = "late" /\ starting = 0) => execs[id] = dispatched[id]

\* The schedule function of task i of the list has returned None in one of
\* the calls made of it so far.
ReturnedNone(i) ==
    \E n \in 1..tasks[i].calls : schedule(tasks[i].sched, n, 0).isNone

\* C18 (as claimed): a task whose schedule function has returned None, at
\* whichever computation of next_exec, is not in the list, and the TaskList
\* thread has not died.
C18_NoneRemoves ==
    /\ \A i \in DOMAIN tasks : ~ReturnedNone(i)
    /\ tasklist_pc # "crashed"

C20_GracefulShutdown ==
    [][(loop # "closed" /\ loop' = "closed") =>
            /\ _active_commands = {}
            /\ running_tasks = {}]_vars

\* C21 (as claimed): reading a frame whose payload cannot be deserialized
\* leaves the accept loop running: the loop goes on accepting and the
\* server is not stopped.
C21_MalformedFrameContained ==
    [][(/\ loop = "accept"
        /\ socket # <<>>
        /\ deserialize_raises(Head(socket))
        /\ socket' = Tail(socket))
       => (loop' = "accept" /\ running')]_vars


\* C22 (as claimed): when the schedule function of the task that is due
\* raises as the scheduler recomputes next_exec, the scheduler loop goes
\* on: the thread is still at the top of its loop and the task is still in
\* the list.  TaskList.run calls reset_next_exec outside any try, so the
\* exception ends the scheduler thread.
C22_ScheduleErrorContained ==
    [][(/\ tasklist_pc = "top"
        /\ tasks # <<>>
        /\ calc_raises(tasks[1])
        /\ cur_task' = tasks[1].id
        /\ tasks' # tasks)
       => (/\ tasklist_pc' = "top"
           /\ \E i \in 1..Len(tasks') : tasks'[i].id = tasks[1].id)]_vars


\* C23: when the function of a scheduled task raises, the step that ends
\* the execution removes its entry from running_tasks and leaves the task
\* list and the scheduler thread as they were: the task is still listed
\* with the next_exec the scheduler recomputed for it.  An Exception never
\* leaves Task.__call__.
C23_BodyErrorSwallowed ==
    [][\A r \in ended' \ ended :
         r.body # "return" =>
           /\ r.body = "raise" => r.call = "return"
           /\ [id |-> r.id, n |-> r.n] \notin running_tasks'
           /\ tasks' = tasks
           /\ tasklist_pc' = tasklist_pc
           /\ \E i \in DOMAIN tasks' :
                 tasks'[i].id = r.id /\ ~tasks'[i]._next_exec.isNone]_vars

\* A task whose function raised in one execution has been started by the
\* scheduler again and has run again.
C23_Witness ==
    \E r, q \in ended :
        /\ r.body = "raise"
        /\ r.call = "return"
        /\ q.id = r.id
        /\ q.n > r.n
        /\ dispatched[r.id] >= 2
        /\ InList(r.id)
        /\ running_tasks = {}


\* The pool workers that are executing handle_message with a capability
\* body.
ExecutingBodies == {w \in Workers : thread[w].pc = "body"}

\* C24 (as claimed): capability bodies and task bodies run on one pool of
\* worker_threads workers, so no more than worker_threads of them execute
\* at once.  TaskList.run starts a new Thread for every execution and never
\* uses the pool Server.run assigns to it.
C24_SharedPoolBound ==
    Cardinality(ExecutingBodies) + Cardinality(running_tasks) <= worker_threads

\* The threads inside a critical section of key.
InCritical(key) ==
    {t \in LockThreads : lock_thread[t].pc = "critical" /\ lock_thread[t].key = key}

\* The threads that hold a lock the factory returned for key.
HasLock(key) ==
    {t \in LockThreads : /\ lock_thread[t].pc \in {"got", "critical"}
                         /\ lock_thread[t].key = key}

\* C25: the default lock factory gives every thread that asks for one key
\* the same lock, also when several threads ask for a key that has no lock
\* yet; no two threads are inside critical sections of one key at once;
\* and a thread is kept waiting only by a critical section of its own key.
C25_KeyedLocks ==
    \A key \in LockKeys :
        /\ \A t \in HasLock(key) : /\ key \in DOMAIN _locks
                                   /\ lock_thread[t].lock = _locks[key]
        /\ Cardinality(InCritical(key)) <= 1
        /\ \A t \in HasLock(key) :
              (lock_thread[t].pc = "got" /\ InCritical(key) = {})
                 => rlock_owner[lock_thread[t].lock] = 0

\* One thread is in a critical section, a second holds the lock of the same
\* key and waits for it, and a third is in a critical section of another
\* key.
C25_Witness ==
    \E t, u, v \in LockThreads :
        /\ lock_thread[t].pc = "critical"
        /\ lock_thread[u].pc = "got"
        /\ lock_thread[u].key = lock_thread[t].key
        /\ lock_thread[v].pc = "critical"
        /\ lock_thread[v].key # lock_thread[t].key

\* C26 (as claimed): Server.uid read inside an event handler or a scheduled
\* task gives None on whichever thread the handler or the task runs.  A
\* handler that publish() runs on behalf of a capability runs on the pool
\* thread handle_message has tagged with the client's uid, and reads that.
C26_UidIsNone == \A r \in uid_reads : r.value = None

\* C27: Client.cmd returns a frame only if the frame carries the nonce of
\* this call and is not a partial response; a partial response with the
\* nonce of the call goes to partial_callback (when one is set) and the
\* call keeps waiting; a frame with any other nonce is dropped, the call
\* keeps waiting, and no call ever returns that frame.
C27_NonceCorrelation ==
    \A i \in DOMAIN cmd_log :
        LET e == cmd_log[i]
        IN  /\ e.what = "return"
                 => (e.frame.nonce = e.call /\ e.frame.type # "partial")
            /\ (e.frame.nonce = e.call /\ e.frame.type = "partial")
                 => /\ e.then = "waiting"
                    /\ partial_callback => e.what = "callback"
            /\ e.frame.nonce # e.call
                 => /\ e.what = "discard"
                    /\ e.then = "waiting"
                    /\ \A j \in DOMAIN cmd_log :
                          cmd_log[j].frame.id = e.frame.id => j = i

\* The second call of cmd has dropped a late response to the first one,
\* handed a partial response to partial_callback, and returned its own
\* response.
C27_Witness ==
    /\ Len(cmd_log) = 3
    /\ cmd_log[1].what = "discard" /\ cmd_log[1].frame.type # "partial"
    /\ cmd_log[2].what = "callback"
    /\ cmd_log[3].what = "return"
    /\ cmd_log[3].call = 1
    /\ cmd_pc = "idle"


\* C28 (as claimed): the response of the request a client issued last is
\* never dropped as stale, in whatever order the pool threads take up, start
\* and finish the client's requests.  _client_cmds records the thread that
\* started last, which need not be the thread of the request issued last.
C28_LatestNeverStale ==
    \A r \in DOMAIN reqs :
        (\A q \in DOMAIN reqs : q > r => reqs[q].uid # reqs[r].uid)
            => ghost[r].owner # "no"


\* C29 (as claimed): every turn of the accept loop drains the result queue
\* and sends what was queued, also a turn that received a frame.  The call
\* of _try_respond sits in the except branch of the recv, so a turn that
\* receives a frame leaves the queue as it is.
C29_EveryIterationDrains ==
    [][(/\ loop = "accept"
        /\ socket # <<>>
        /\ socket' = Tail(socket)
        /\ _queue # <<>>)
       => (/\ _queue' = <<>>
           /\ sent' = sent \o _try_respond(_queue))]_vars

\* C30: the accept loop never waits for a capability: whenever the loop is
\* running and a frame is there, the loop can take it and hand it to the
\* pool, whatever the pool threads are doing; and a call that waits in the
\* pool's queue can start on any pool thread that is idle.
C30_LoopNeverWaits ==
    /\ (loop = "accept" /\ running /\ socket # <<>>) => ENABLED Recv
    /\ \A w \in Workers :
          (thread[w].pc = "idle" /\ taskqueue # <<>>) => ENABLED PoolGet(w)

\* While the body of a request of one client is still executing, the loop
\* has taken a request of another client that came later, and its body
\* executes on the other pool thread.
C30_Witness ==
    \E w, v \in Workers :
        /\ thread[w].pc = "body"
        /\ thread[v].pc = "body"
        /\ thread[w].uid # thread[v].uid
        /\ thread[w].msg.req < thread[v].msg.req
        /\ ghost[thread[w].msg.req].outcome = "none"
        /\ loop = "accept"
        /\ running


\* Whether a terminal response of request req has been queued or sent.
Answered(req) ==
    \/ \E i \in DOMAIN sent : Terminal(sent[i].msg) /\ sent[i].msg.req = req
    \/ \E i \in DOMAIN _queue :
          Terminal(_queue[i].response) /\ _queue[i].response.req = req

\* C31: the step in which a running capability emits a partial reply puts
\* the reply at the end of the result queue, under the uid the staleness
\* check of Server.partial left; the request is still active afterwards,
\* its body goes on, and no terminal response of it exists yet.
C31_PartialImmediate ==
    [][\A w \in Workers :
         (thread[w].pc = "partial" /\ thread'[w].pc = "body" /\ loop # "closed")
            => /\ Len(_queue') = Len(_queue) + 1
               /\ SubSeq(_queue', 1, Len(_queue)) = _queue
               /\ IsPartial(_queue'[Len(_queue')].response)
               /\ _queue'[Len(_queue')].response.req = thread[w].msg.req
               /\ _queue'[Len(_queue')].uid = thread[w].put_uid
               /\ thread[w].msg.req \in _active_commands'
               /\ ghost'[thread[w].msg.req].outcome = "none"
               /\ ~Answered(thread[w].msg.req)']_vars

\* The accept loop has sent a partial reply of a request whose capability
\* body is still running.
C31_Witness ==
    \E w \in Workers :
        /\ thread[w].pc = "body"
        /\ thread[w].partials > 0
        /\ ~Answered(thread[w].msg.req)
        /\ \E i \in DOMAIN sent :
              /\ IsPartial(sent[i].msg)
              /\ sent[i].msg.req = thread[w].msg.req
              /\ sent[i].uid = thread[w].uid

\* Where the handler registered last stands in the registry.
NewIndex(list) == CHOOSE i \in DOMAIN list : list[i].callback = Len(list)

\* The registry is in non-decreasing order of priority.
RegistrySorted(list) ==
    \A i, j \in DOMAIN list : i < j => list[i].priority <= list[j].priority

\* C32 (as claimed): a registration puts the handler at the first position
\* whose handler has a priority not less than the new one, so every handler
\* before it has a smaller priority; the list is sorted afterwards.  The
\* loop passes the handlers of equal priority as well.
C32_InsertAtFirstNotLess ==
    [][registry' # registry =>
         /\ \A i \in 1..(NewIndex(registry') - 1) :
               registry'[i].priority < registry'[NewIndex(registry')].priority
         /\ RegistrySorted(registry')]_vars

\* C32 (amended): a registration puts the handler at the first position
\* whose handler has a greater priority, behind every handler of a smaller
\* or equal priority, and leaves the other handlers in their order; the
\* list is sorted afterwards.
C32_InsertAtFirstGreater ==
    [][registry' # registry =>
         LET n == NewIndex(registry')
         IN  /\ \A i \in 1..(n - 1) :
                   registry'[i].priority <= registry'[n].priority
             /\ \A i \in (n + 1)..Len(registry') :
                   registry'[i].priority > registry'[n].priority
             /\ SubSeq(registry', 1, n - 1) = SubSeq(registry, 1, n - 1)
             /\ SubSeq(registry', n + 1, Len(registry')) =
                   SubSeq(registry, n, Len(registry))
             /\ RegistrySorted(registry')]_vars

\* The third handler was registered with the priority of the first and a
\* smaller one than the second: it stands between them.
C32_Witness ==
    /\ Len(registry) = 3
    /\ registry[1].callback = 1
    /\ registry[2].callback = 3
    /\ registry[3].callback = 2
    /\ registry[1].priority = registry[2].priority
    /\ registry[2].priority < registry[3].priority


\* C33 (as claimed): next_exec is memoized.  The schedule function of a
\* task in the list has been called once for the first computation and once
\* for every firing of the task, and never by a mere read of next_exec.
\* Task.next_exec takes a cached None for "not computed yet", so every read
\* (the sort keys of lines 162 and 191, the tests of lines 180 and 187)
\* calls the schedule function again while the value computed is None.
C33_NextExecMemoized ==
    tasklist_pc \in {"init", "top", "sleep", "exited"} =>
        \A i \in DOMAIN tasks :
            tasks[i].calls = 1 + dispatched[tasks[i].id]

\* The first task of the list is due.
HeadDue ==
    /\ tasks # <<>>
    /\ ~next_exec(tasks[1], now).value.isNone
    /\ next_exec(tasks[1], now).value.t <= now

\* C36: the scheduler loop never waits for an execution it started:
\* whenever the loop is at its test and the first task is due, the
\* due-check can take place, whatever executions are under way.
C36_SchedulerNeverWaits ==
    (/\ tasklist_pc = "top"
     /\ tasklist_running
     /\ HeadDue
     /\ TotalDispatched < MaxExec) => ENABLED RunDue

\* Two executions of one task are under way at once, a third thread has
\* been started, and the loop is back at its test.
C36_Witness ==
    /\ tasklist_pc = "top"
    /\ TotalDispatched = 3
    /\ \E e, f \in running_tasks : e.id = f.id /\ e.n # f.n


\* The time a read of next_exec gives for a task now (0 stands for None).
DueTime(task) == next_exec(task, now).value.t

\* A read of next_exec gives a time for the task, not None.
HasDueTime(task) == ~next_exec(task, now).value.isNone

\* C34 (as claimed): at every due-check, the first task of the list, which
\* the loop examines, has the smallest next_exec of the tasks in the list,
\* also while tasks are added at runtime.  TaskList.add appends and sorts in
\* two statements under no lock (C35): a due-check between the two examines
\* the old head although the appended task is due earlier.
C34_HeadIsEarliest ==
    [][(/\ tasklist_pc = "top"
        /\ tasklist_pc' \in {"due", "sleep"}
        /\ tasks # <<>>)
       => \A i \in DOMAIN tasks :
             HasDueTime(tasks[i]) => DueTime(tasks[1]) <= DueTime(tasks[i])]_vars

\* C35 (as claimed): the loop's due-check and a runtime add() exclude each
\* other, so every due-check binds, reschedules and starts the task it
\* found due, and removes no task but that one.  The two threads take no
\* lock: between the test of line 180 and lines 184 and 189 an add() may
\* put another task first, and pop(0) then removes the added task.
C35_DueCheckIsAtomic ==
    /\ \A c \in due_checks :
          c.cur = c.found /\ c.removed \in {0, c.found}
    /\ tasklist_pc \in {"bound", "reset", "sort"} =>
          cur_task = due_check.found
    /\ due_check.removed \in {0, due_check.found}

\* The later one of two times.
Later(a, b) == IF a >= b THEN a ELSE b

\* C37 (as claimed): the loop's sleep is bounded, so that the loop never
\* sleeps past the time a task of the list is due, or was added, by more
\* than the polling interval of one second.  The loop sleeps for the whole
\* delta of the task that was first when it looked (line 182), and add()
\* does not wake it.
C37_SleepIsBounded ==
    tasklist_pc = "sleep" =>
        \A i \in DOMAIN tasks :
            ~tasks[i]._next_exec.isNone =>
                wake <= Later(tasks[i]._next_exec.t, added_at[tasks[i].id]) + 1


\* C38: framing round-trip.  For every message a peer has read, on each
\* socket-role pair (dealer to router, router to dealer, publish to
\* subscribe, request and reply), recv returns the object that was handed to
\* send; a ROUTER returns it with the identity of the sending client, a SUB
\* socket with the channel, and the channel is the first frame written.
C38_FramingRoundTrip ==
    \A i \in DOMAIN stream_log :
        LET e == stream_log[i]
            obj == e.args[Len(e.args)]
        IN  /\ ~e.got.raised
            /\ CASE e.pair[2] = "ROUTER" -> e.got.value = <<e.uid, obj>>
                 [] e.pair[2] = "SUB" ->
                        /\ e.got.value = <<e.args[1], obj>>
                        /\ e.written[1] = e.args[1]
                 [] OTHER -> e.got.value = <<obj>>

\* A ROUTER has read a non-empty object a DEALER sent, and a SUB socket one
\* that a PUB socket published.
C38_Witness ==
    /\ Len(stream_log) = 2
    /\ stream_log[1].pair = <<"DEALER", "ROUTER">>
    /\ stream_log[1].args = <<(<<"b", "a">>)>>
    /\ stream_log[1].uid = <<"y", "x">>
    /\ stream_log[2].pair = <<"PUB", "SUB">>
    /\ stream_log[2].args = <<(<<"t", "u">>), (<<"a">>)>>


\* C39 (as claimed): no response is lost at shutdown.  Once the pool is
\* terminated and the stream closed, every request the accept loop had
\* accepted, and that no later request of its client made stale, has had
\* its terminal response written to the stream.
C39_NoResponseLost ==
    loop = "closed" =>
        \A r \in 1..Len(reqs) :
            (/\ ghost[r].accepted
             /\ ~ghost[r].superseded
             /\ ghost[r].owner # "no")
            => \E i \in DOMAIN sent : sent[i].msg.req = r


\* C40 (as claimed): shutdown terminates.  Every entry of the
\* active-command list belongs to a request a pool thread is still handling:
\* the entry is removed when the request finishes, whatever the message was
\* and however the capability ended, so the wait of the shutdown loop ends
\* once the bodies under way have ended.
C40_ActiveEntriesAreRunning ==
    \A r \in _active_commands :
        \E w \in Workers :
            /\ thread[w].pc \in {"body", "partial"}
            /\ thread[w].msg.req = r

====
